---- MODULE Spec2Model ----
(***************************************************************************)
(* BebeFlix: the transcode job (utils/compression.py, CompressionThread),  *)
(* the import dialog that drives it (ui/add_movie_dialog.py,               *)
(* AddMovieDialog) and the catalog rows the dialog commits                 *)
(* (BebeFlix/database.py).                                                 *)
(*                                                                         *)
(* Threads: every CompressionThread is a worker thread; the dialog's slots *)
(* run on the GUI thread.  A signal emitted by a worker is queued to the   *)
(* GUI thread (mainQueue) and its slot runs when the GUI thread is back in *)
(* its event loop.  The external encoder is an OS process per job.         *)
(***************************************************************************)
EXTENDS Integers, Sequences, FiniteSets, TLC

\* ---------------------------------------------------------------- bounds
MaxJobs == 2          \* CompressionThread objects created in one run
MaxEpisodes == 2      \* episode files selected for one batch
MaxLines == 1         \* lines an encoder writes to its progress pipe

Jobs == 1..MaxJobs
NoJob == 0            \* Python None for _compression_thread

\* ---------------------------------------------------------------- inputs
\* PRESETS: the "copy" preset takes the shutil.copy2 branch, every other
\* preset (lossless, high, balanced, space_saver) launches the encoder.
Presets == {"copy", "high"}

codec(preset) == IF preset = "copy" THEN "copy" ELSE "libx264"

\* get_video_duration() in seconds; NoDuration is its None.
NoDuration == 0

\* A source file: its name as a token sequence ("mark" tokens are SxxEyy /
\* NxM markers, "tag" tokens are bracketed tags, "sep" tokens are . _ and
\* blanks, "dash" is a hyphen, everything else is a word of the title), the
\* duration the probe finds in it, and the block of progress lines the
\* encoder repeats while it encodes it (out_time_ms in seconds).
Tok(kind, text) == [kind |-> kind, text |-> text]
OutTime(seconds) == [key |-> "out_time_ms", value |-> seconds]
OtherLine == [key |-> "frame", value |-> 0]
SourceFile(name, d, lines) == [name |-> name, duration |-> d, lines |-> lines]

AllFiles ==
    << SourceFile(<<Tok("word", "Show"), Tok("sep", "."), Tok("mark", "S01E01"),
                    Tok("sep", "."), Tok("word", "Pilot")>>,
                  10, <<OutTime(5), OtherLine>>),
       SourceFile(<<Tok("word", "Show"), Tok("sep", "_"), Tok("mark", "1x02"),
                    Tok("dash", "-"), Tok("word", "Two"), Tok("tag", "[720p]")>>,
                  NoDuration, <<OutTime(5)>>),
       SourceFile(<<Tok("mark", "S01E03"), Tok("sep", " "), Tok("dash", "-"),
                    Tok("sep", " "), Tok("word", "Three")>>,
                  10, <<OutTime(20)>>),
       SourceFile(<<Tok("word", "Four")>>, 10, <<OtherLine, OutTime(5)>>) >>

MovieFile == SourceFile(<<Tok("word", "Alpha")>>, 10, <<OutTime(5), OutTime(20)>>)
NoFile == SourceFile(<<>>, NoDuration, <<OtherLine>>)

\* Titles typed by the user (show title, movie title) and season numbers of
\* the season spin box (range 1..99 in the source; two values are used).
ShowTitles == {"Alpha"}
MovieTitles == {"Alpha"}
SeasonNumbers == {1, 2}

\* ------------------------------------------------------------- variables
VARIABLES
    \* --- CompressionThread, one per job id
    nJobs,          \* number of CompressionThread objects created so far
    preset,         \* job -> preset key
    slot,           \* job -> slot connected to finished_signal
    input_path,     \* job -> source file
    output_path,    \* job -> destination path
    pc,             \* job -> position of run()
    cancelled,      \* job -> self._cancelled
    process,        \* job -> self._process is not None
    \* --- encoder process and filesystem
    proc,           \* job -> state of the OS process
    pipe,           \* job -> unread lines in the progress pipe
    written,        \* job -> lines the encoder has written so far
    files,          \* set of paths at which a file exists
    \* --- GUI thread
    mainQueue,      \* queued finished_signal deliveries, FIFO
    mainPc,         \* "idle" | "cancelWait" (blocked in QThread.wait)
    dialogOpen,     \* the dialog accepts clicks
    acceptTimer,    \* QTimer.singleShot(800, self.accept) pending
    existing_show,  \* id of the show the dialog was opened for, or NoId
    forced_season,  \* season number the dialog was opened for, or NoSeason
    is_processing, compression_thread, episode_queue, current_ep_index,
    pending_data,
    progress_slot,  \* job -> what is connected to its progress signal
    shown,          \* job -> values set on the progress bar for its progress signals
    \* --- catalog
    shows, seasons, episodes, movies, subtitles, nextId,
    \* --- observation (history) variables
    emitted,        \* job -> sequence of signals emitted by run()
    cancelMidRun,   \* job -> cancel() was called between run() start and the terminal signal
    procAtEmit,     \* job -> state of the encoder when the terminal signal was emitted
    fileAtEmit,     \* job -> a file existed at output_path when the terminal signal was emitted
    jobItem,        \* job -> the queue entry / pending import the job was started for
    commitBy,       \* row id -> job whose terminal signal triggered the commit
    warnings,       \* modal error boxes shown, in order
    completions,    \* show_added / movie_added emissions, in order
    escaped,        \* exceptions that left a slot unhandled, in order
    \* --- Database, called directly
    conn,           \* the connection add_movie holds open, with its uncommitted writes
    ret,            \* the last Database call that returned: arguments, result, tables before
    date_added,     \* table -> row id -> the row's date_added (CURRENT_TIMESTAMP, in seconds)
    touched,        \* the items whose position was written, oldest first
    \* --- host
    sep             \* os.sep, the separator os.path.join and os.path.relpath put
                    \* between the components of the paths they return

jobVars == <<nJobs, preset, slot, progress_slot, input_path, output_path, pc,
            cancelled, process>>
envVars == <<proc, pipe, written, files>>
guiVars == <<mainQueue, mainPc, dialogOpen, acceptTimer, existing_show,
             forced_season, is_processing, compression_thread, episode_queue,
             current_ep_index, pending_data, shown>>
dbVars == <<shows, seasons, episodes, movies, subtitles, nextId>>
histVars == <<emitted, cancelMidRun, procAtEmit, fileAtEmit, jobItem, commitBy,
              warnings, completions, escaped>>
apiVars == <<conn, ret, date_added, touched>>
hostVars == <<sep>>
vars == <<jobVars, envVars, guiVars, dbVars, apiVars, hostVars, histVars>>

\* ------------------------------------------------------ CompressionThread
Progress(v) == [sig |-> "progress", value |-> v]
Finished(ok, msg) == [sig |-> "finished", success |-> ok, message |-> msg]

MsgCopied == "File copied successfully."
MsgComplete == "Compression complete."
MsgCancelled == "Compression cancelled."
MsgNotFound == "FFmpeg not found. Please ensure FFmpeg is available."
MsgFFmpegError == "FFmpeg error"
MsgError == "Error"
MsgIOError == "str(e)"

\* Progress values are kept in tenths of a percent: 1000 is 100.0, 999 is 99.9.
Percent100 == 1000
PercentCap == 999

Min(a, b) == IF a < b THEN a ELSE b

\* The percentage without the 99.9 cap.
percentUncapped(current_seconds, d) == (current_seconds * 1000) \div d

\* percent = min((current_seconds / duration) * 100, 99.9)
percent(current_seconds, d) == Min((current_seconds * 1000) \div d, PercentCap)

\* The signals for one line without the "if duration and duration > 0"
\* guard: a sample of an unprobed input is reported as 0.
LineSignalsUnguarded(line, d) ==
    IF line.key = "out_time_ms"
    THEN <<Progress(IF d # NoDuration /\ d > 0 THEN percent(line.value, d) ELSE 0)>>
    ELSE <<>>

\* Signals run() emits for one line of the progress pipe.
LineSignals(line, d) ==
    IF line.key = "out_time_ms" /\ d # NoDuration /\ d > 0
    THEN <<Progress(percent(line.value, d))>>
    ELSE <<>>

Alive(p) == p \in {"running", "terminating"}
Exited(p) == p \in {"exited0", "exitedErr"}

\* Popen.terminate(): signals a live process, no effect on one that has exited.
terminate(p) == IF p = "running" THEN "terminating" ELSE p

\* _cleanup(): os.remove(output_path) if it exists, every exception swallowed.
\* While the encoder still holds the file open the removal succeeds on POSIX
\* and raises PermissionError (swallowed) on Windows: both outcomes.
cleanup(path, fs, held) ==
    IF path \in fs
    THEN IF held THEN {fs \ {path}, fs} ELSE {fs \ {path}}
    ELSE {fs}

\* The terminal signal: finished_signal.emit(ok, msg), queued to the GUI
\* thread, after the progress values in pre; run() then returns.
EmitFinished(j, pre, ok, msg, procNew, filesNew) ==
    /\ emitted' = [emitted EXCEPT ![j] = @ \o pre \o <<Finished(ok, msg)>>]
    /\ mainQueue' = Append(mainQueue, [job |-> j, success |-> ok, message |-> msg])
    /\ pc' = [pc EXCEPT ![j] = "done"]
    /\ process' = [process EXCEPT ![j] = FALSE]
    /\ proc' = [proc EXCEPT ![j] = procNew]
    /\ files' = filesNew
    /\ procAtEmit' = [procAtEmit EXCEPT ![j] = procNew]
    /\ fileAtEmit' = [fileAtEmit EXCEPT ![j] = output_path[j] \in filesNew]

jobFrame == UNCHANGED <<nJobs, preset, slot, progress_slot, shown, input_path,
                        output_path, mainPc,
                        dialogOpen, acceptTimer, existing_show, apiVars, hostVars, forced_season,
                        is_processing, compression_thread,
                        episode_queue, current_ep_index, pending_data, dbVars,
                        cancelMidRun, jobItem, commitBy, warnings, completions,
                        escaped>>

\* run(), up to the copy or up to the Popen call.
RunStart(j) ==
    /\ pc[j] = "created"
    /\ IF codec(preset[j]) = "copy"
       THEN /\ emitted' = [emitted EXCEPT ![j] = Append(@, Progress(0))]
            /\ pc' = [pc EXCEPT ![j] = "copying"]
       ELSE /\ pc' = [pc EXCEPT ![j] = "launch"]
            /\ UNCHANGED emitted
    /\ UNCHANGED <<cancelled, process, envVars, mainQueue, procAtEmit, fileAtEmit>>
    /\ jobFrame

\* shutil.copy2 and the rest of the copy branch.
CopyOutcomes == {"ok", "fail_before", "fail_partial"}

\* The copy branch without its progress.emit(100.0).
CopyBranchNoHundred(j, outcome) ==
    IF outcome = "ok"
    THEN EmitFinished(j, <<>>, TRUE, MsgCopied, proc[j], files \cup {output_path[j]})
    ELSE EmitFinished(j, <<>>, FALSE, MsgIOError, proc[j],
                      IF outcome = "fail_partial"
                      THEN files \cup {output_path[j]} ELSE files)

CopyBranch(j, outcome) ==
    IF outcome = "ok"
    THEN EmitFinished(j, <<Progress(Percent100)>>, TRUE, MsgCopied,
                      proc[j], files \cup {output_path[j]})
    ELSE EmitFinished(j, <<>>, FALSE, MsgIOError, proc[j],
                      IF outcome = "fail_partial"
                      THEN files \cup {output_path[j]} ELSE files)

Copy(j) ==
    /\ pc[j] = "copying"
    /\ \E outcome \in CopyOutcomes : CopyBranch(j, outcome)
    /\ UNCHANGED <<cancelled, pipe, written>>
    /\ jobFrame

\* tempfile.NamedTemporaryFile + subprocess.Popen.
LaunchOutcomes == {"ok", "FileNotFoundError", "Exception"}

LaunchBranch(j, outcome) ==
    CASE outcome = "ok" ->
            /\ process' = [process EXCEPT ![j] = TRUE]
            /\ proc' = [proc EXCEPT ![j] = "running"]
            /\ pc' = [pc EXCEPT ![j] = "reading"]
            /\ UNCHANGED <<files, emitted, mainQueue, procAtEmit, fileAtEmit>>
      [] outcome = "FileNotFoundError" ->
            EmitFinished(j, <<>>, FALSE, MsgNotFound, proc[j], files)
      [] outcome = "Exception" ->
            \E fs \in cleanup(output_path[j], files, FALSE) :
                EmitFinished(j, <<>>, FALSE, MsgError, proc[j], fs)

Launch(j) ==
    /\ pc[j] = "launch"
    /\ \E outcome \in LaunchOutcomes : LaunchBranch(j, outcome)
    /\ UNCHANGED <<cancelled, pipe, written>>
    /\ jobFrame

\* One iteration of "for line in self._process.stdout" that gets a line.
CancelCheck(j) ==
    LET p == terminate(proc[j]) IN
    \E fs \in cleanup(output_path[j], files, Alive(p)) :
        EmitFinished(j, <<>>, FALSE, MsgCancelled, p, fs)

\* The line at the head of the pipe: the encoder repeats the block of its
\* input, and written - pipe lines have been read already.
get_video_duration(source) == source.duration
HeadLine(j) ==
    LET block == input_path[j].lines
    IN block[((written[j] - pipe[j]) % Len(block)) + 1]

ReadLine(j) ==
    /\ pc[j] = "reading"
    /\ pipe[j] > 0
    /\ pipe' = [pipe EXCEPT ![j] = @ - 1]
    /\ IF cancelled[j]
       THEN CancelCheck(j)
       ELSE /\ emitted' = [emitted EXCEPT
                  ![j] = @ \o LineSignals(HeadLine(j), get_video_duration(input_path[j]))]
            /\ UNCHANGED <<pc, process, proc, files, mainQueue, procAtEmit, fileAtEmit>>
    /\ UNCHANGED <<cancelled, written>>
    /\ jobFrame

\* run() without its "except Exception" clause: the exception leaves run()
\* through the finally block and nothing is emitted.
ExceptionBranchEscapes(j) ==
    /\ pc' = [pc EXCEPT ![j] = "done"]
    /\ process' = [process EXCEPT ![j] = FALSE]
    /\ UNCHANGED <<emitted, mainQueue, proc, files, procAtEmit, fileAtEmit>>

\* An exception raised inside the loop outside the inner try (a line that
\* does not decode, an OverflowError): except Exception.
ExceptionBranch(j) ==
    \E fs \in cleanup(output_path[j], files, Alive(proc[j])) :
        EmitFinished(j, <<>>, FALSE, MsgError, proc[j], fs)

ReadRaise(j) ==
    /\ pc[j] = "reading"
    /\ pipe[j] > 0
    /\ pipe' = [pipe EXCEPT ![j] = @ - 1]
    /\ ExceptionBranch(j)
    /\ UNCHANGED <<cancelled, written>>
    /\ jobFrame

\* The returncode branches without the _cleanup() call.
ExitBranchNoCleanup(j) ==
    IF proc[j] = "exited0"
    THEN EmitFinished(j, <<Progress(Percent100)>>, TRUE, MsgComplete, proc[j], files)
    ELSE EmitFinished(j, <<>>, FALSE, MsgFFmpegError, proc[j], files)

\* End of the stream: self._process.wait() and the returncode branches.
ExitBranch(j) ==
    IF proc[j] = "exited0"
    THEN EmitFinished(j, <<Progress(Percent100)>>, TRUE, MsgComplete, proc[j], files)
    ELSE \E fs \in cleanup(output_path[j], files, FALSE) :
             EmitFinished(j, <<>>, FALSE, MsgFFmpegError, proc[j], fs)

ReadEOF(j) ==
    /\ pc[j] = "reading"
    /\ pipe[j] = 0
    /\ Exited(proc[j])
    /\ ExitBranch(j)
    /\ UNCHANGED <<cancelled, pipe, written>>
    /\ jobFrame

\* cancel(), called on the GUI thread.
cancel(j) ==
    /\ cancelled' = [cancelled EXCEPT ![j] = TRUE]
    /\ proc' = [proc EXCEPT ![j] = IF process[j] THEN terminate(@) ELSE @]
    /\ cancelMidRun' = [cancelMidRun EXCEPT
                           ![j] = @ \/ pc[j] \in {"copying", "launch", "reading"}]

\* ------------------------------------------------------- encoder process
envFrame == UNCHANGED <<jobVars, guiVars, dbVars, apiVars, hostVars, histVars>>

\* The encoder writes one line of its progress block (it has opened its
\* output file by then); a terminated encoder still flushes a final block.
\* What the encoder does after run() has returned is not observed.
ProcProgress(j) ==
    /\ pc[j] = "reading"
    /\ Alive(proc[j])
    /\ written[j] < MaxLines
    /\ written' = [written EXCEPT ![j] = @ + 1]
    /\ pipe' = [pipe EXCEPT ![j] = @ + 1]
    /\ files' = files \cup {output_path[j]}
    /\ UNCHANGED proc
    /\ envFrame

\* The encoder exits: by itself with status 0 (output complete) or non-zero,
\* after terminate() always non-zero.
ProcExit(j) ==
    /\ pc[j] = "reading"
    /\ Alive(proc[j])
    /\ \/ /\ proc[j] = "running"
          /\ proc' = [proc EXCEPT ![j] = "exited0"]
          /\ files' = files \cup {output_path[j]}
       \/ /\ proc' = [proc EXCEPT ![j] = "exitedErr"]
          /\ UNCHANGED files
    /\ UNCHANGED <<pipe, written>>
    /\ envFrame

\* ------------------------------------------------------------ utils/paths
\* Paths are sequences of components below the drive root.
get_library_root == <<"library">>
get_movies_dir == get_library_root \o <<"movies">>

\* slugify(title): lower-cased, blanks and punctuation folded to hyphens.
slugify(title) ==
    CASE title = "Alpha" -> "alpha"
      [] title = "alpha" -> "alpha"
      [] title = "Beta" -> "beta"
      [] OTHER -> "untitled"

make_movie_dir(slug) == get_movies_dir \o <<slug>>

\* os.path.relpath(path, root) for a path below root.
relpath(path, root) == SubSeq(path, Len(root) + 1, Len(path))

\* os.path.splitext(source)[1]: the model's source files are .mkv files.
splitext(source) == ".mkv"

ext(source, preset_key) == IF preset_key = "copy" THEN splitext(source) ELSE ".mp4"

Pad2(n) == IF n < 10 THEN "0" \o ToString(n) ELSE ToString(n)

\* f"s{season_num:02d}e{ep_num:02d}"
ep_slug(season_num, ep_num) == "s" \o Pad2(season_num) \o "e" \o Pad2(ep_num)

InDir(path, dir) == Len(path) > Len(dir) /\ SubSeq(path, 1, Len(dir)) = dir

\* shutil.rmtree(dir): every file below dir is gone.
rmtree(dir, fs) == {f \in fs : ~InDir(f, dir)}

\* ------------------------------------------------- _extract_episode_title
RECURSIVE StripLeft(_)
StripLeft(toks) ==
    IF toks # <<>> /\ Head(toks).kind = "dash" THEN StripLeft(Tail(toks)) ELSE toks

RECURSIVE StripRight(_)
StripRight(toks) ==
    IF toks # <<>> /\ toks[Len(toks)].kind = "dash"
    THEN StripRight(SubSeq(toks, 1, Len(toks) - 1)) ELSE toks

IsTitleToken(t) == t.kind \in {"word", "dash"}

\* Separators become blanks, SxxEyy / NxM markers and bracketed tags are
\* removed, blanks are collapsed, blanks and hyphens stripped at both ends:
\* what is left is the words (and inner hyphens) in order.
extract_episode_title(filename) ==
    LET kept == StripRight(StripLeft(SelectSeq(filename, IsTitleToken)))
    IN [i \in 1..Len(kept) |-> kept[i].text]

\* ---------------------------------------------------------------- catalog
NoId == 0

\* INSERT INTO shows; ids come from AUTOINCREMENT.
add_show(title, thumb_path) ==
    [id |-> nextId.shows,
     shows |-> shows \cup {[id |-> nextId.shows, title |-> title,
                            thumb_path |-> thumb_path]}]

\* INSERT INTO seasons: no check on season_number.
add_season(show_id, season_number) ==
    [id |-> nextId.seasons,
     seasons |-> seasons \cup {[id |-> nextId.seasons, show_id |-> show_id,
                                season_number |-> season_number]}]

\* INSERT INTO episodes.
add_episode(season_id, episode_number, title, movie_path) ==
    [id |-> nextId.episodes,
     episodes |-> episodes \cup {[id |-> nextId.episodes, season_id |-> season_id,
                                  episode_number |-> episode_number,
                                  title |-> title, movie_path |-> movie_path,
                                  last_position |-> 0, duration |-> 0]}]

\* INSERT INTO movies + one INSERT INTO subtitles per entry, one commit.
add_movie(title, movie_path, thumb_path, subtitle_entries) ==
    [id |-> nextId.movies,
     movies |-> movies \cup {[id |-> nextId.movies, title |-> title,
                              movie_path |-> movie_path, thumb_path |-> thumb_path,
                              last_position |-> 0, duration |-> 0]},
     subtitles |-> subtitles \cup
         {[id |-> nextId.subtitles + i - 1, movie_id |-> nextId.movies,
           sub_path |-> subtitle_entries[i].sub_path,
           label |-> subtitle_entries[i].label,
           is_embedded |-> subtitle_entries[i].is_embedded,
           track_index |-> subtitle_entries[i].track_index]
          : i \in 1..Len(subtitle_entries)}]

\* Python None as a return value, SQL NULL as a column value.
None == [none |-> TRUE]

\* SELECT MAX(season_number) as mx FROM seasons WHERE show_id = ?
\* NULL when the show has no season row.
MaxSeasonNumber(show_id) ==
    LET numbers == {se.season_number : se \in {x \in seasons : x.show_id = show_id}}
    IN IF numbers = {} THEN None
       ELSE [value |-> CHOOSE m \in numbers : \A n \in numbers : n <= m]

\* row["mx"] or 0
OrZero(mx) == IF mx = None THEN 0 ELSE mx.value

\* The next number taken as COUNT(*) + 1.
get_next_season_number_by_count(show_id) ==
    Cardinality({x \in seasons : x.show_id = show_id}) + 1

\* get_next_season_number: (row["mx"] or 0) + 1
get_next_season_number(show_id) == OrZero(MaxSeasonNumber(show_id)) + 1

\* A write of the store either commits or raises (sqlite3.Error).
DbOutcomes == {"ok", "StorageError"}

\* --------------------------------------------------------- AddMovieDialog
\* Creating a CompressionThread, connecting slotName to its finished_signal
\* and calling start().
StartThread(source, dest, preset_key, slotName, progressSlot, item) ==
    LET j == nJobs + 1 IN
    /\ nJobs' = j
    /\ preset' = [preset EXCEPT ![j] = preset_key]
    /\ slot' = [slot EXCEPT ![j] = slotName]
    /\ progress_slot' = [progress_slot EXCEPT ![j] = progressSlot]
    /\ input_path' = [input_path EXCEPT ![j] = source]
    /\ output_path' = [output_path EXCEPT ![j] = dest]
    /\ pc' = [pc EXCEPT ![j] = "created"]
    /\ jobItem' = [jobItem EXCEPT ![j] = item]
    /\ compression_thread' = j

NoThreadStarted ==
    UNCHANGED <<nJobs, preset, slot, progress_slot, input_path, output_path, pc,
               jobItem, compression_thread>>

\* What _process_next_episode connects to the progress signal of the thread
\* it creates: lambda p: self._update_episode_progress(p, idx, total), with
\* idx and total bound when the thread is created; _start_movie_add connects
\* _update_progress.
EpisodeProgressSlot(idx, total) ==
    [name |-> "_update_episode_progress", index |-> idx, total |-> total]
MovieProgressSlot == [name |-> "_update_progress", index |-> 0, total |-> 1]
NoProgressSlot == [name |-> "none", index |-> 0, total |-> 1]

\* _finish_show_add(): show_added.emit(show_id), accept after 800 ms.
\* self._pending_data["show_id"] raises KeyError when the pending import is
\* a movie.
finish_show_add(queue, pending) ==
    IF "show_id" \in DOMAIN pending
    THEN /\ completions' = Append(completions,
                                  [kind |-> "show", id |-> pending.show_id,
                                   season_id |-> IF queue = <<>> THEN NoId
                                                 ELSE queue[1].season_id,
                                   items |-> Len(queue)])
         /\ acceptTimer' = TRUE
         /\ UNCHANGED escaped
    ELSE /\ escaped' = Append(escaped, [slot |-> "_on_episode_complete",
                                        job |-> Head(mainQueue).job,
                                        error |-> "KeyError"])
         /\ UNCHANGED <<completions, acceptTimer>>

\* _process_next_episode() for the queue and the 0-based index given.
process_next_episode(queue, idx, pending) ==
    IF idx >= Len(queue)
    THEN /\ finish_show_add(queue, pending)
         /\ NoThreadStarted
    ELSE /\ nJobs < MaxJobs
         /\ StartThread(queue[idx + 1].source, queue[idx + 1].dest,
                        queue[idx + 1].preset, "_on_episode_complete",
                        EpisodeProgressSlot(idx, Len(queue)),
                        [season_id |-> queue[idx + 1].season_id,
                         episode_number |-> queue[idx + 1].episode_number,
                         items |-> Len(queue)])
         /\ UNCHANGED <<completions, acceptTimer, escaped>>

\* The loop of _start_show_add that builds _episode_queue.
build_episode_queue(episode_paths, show_slug, season_num, season_id, preset_key) ==
    [i \in 1..Len(episode_paths) |->
        LET ep_num == i
            ep_dir == get_movies_dir \o <<show_slug, ep_slug(season_num, ep_num)>>
            ep_dest == ep_dir \o <<"episode" \o ext(episode_paths[i], preset_key)>>
        IN [source |-> episode_paths[i], dest |-> ep_dest,
            rel_path |-> relpath(ep_dest, get_library_root),
            season_id |-> season_id, episode_number |-> ep_num,
            title |-> extract_episode_title(episode_paths[i].name),
            preset |-> preset_key]]

\* The selections of the episode list: the first n of the files on offer.
EpisodePaths == {SubSeq(AllFiles, 1, n) : n \in 1..MaxEpisodes}

\* The show selector, left at the entry the dialog opens with: None
\* ("-- New Show --") in the dialog opened by "add content", the pre-selected
\* existing_show in the dialog opened by "add season" (the user could pick
\* another show of the list).  The season spin box is disabled when a season
\* is forced.
ExistingShowId == 1
NoSeason == 0
SeasonChoices == IF forced_season # NoSeason THEN {forced_season} ELSE SeasonNumbers

\* _on_add() with the TV Show radio checked: _start_show_add().
StartShowAdd(selected, show_title, season_num, episode_paths, preset_key) ==
    LET new == selected = NoId
        title == IF new THEN show_title
                 ELSE (CHOOSE sh \in shows : sh.id = selected).title
        show_dir == make_movie_dir(slugify(title))
        thumb_dest == show_dir \o <<"poster.jpg">>
        added == add_show(title, relpath(thumb_dest, get_library_root))
        show_id == IF new THEN added.id ELSE selected
        season == add_season(show_id, season_num)
        queue == build_episode_queue(episode_paths, slugify(title), season_num,
                                     season.id, preset_key)
    IN
    /\ is_processing' = TRUE
    /\ shows' = IF new THEN added.shows ELSE shows
    /\ seasons' = season.seasons
    /\ nextId' = [nextId EXCEPT !.shows = IF new THEN @ + 1 ELSE @,
                                !.seasons = @ + 1]
    /\ files' = IF new THEN files \cup {thumb_dest} ELSE files
    /\ episode_queue' = queue
    /\ pending_data' = [type |-> "show", show_id |-> show_id]
    /\ current_ep_index' = 0
    /\ process_next_episode(queue, 0, [type |-> "show", show_id |-> show_id])
    /\ UNCHANGED <<cancelled, process, proc, pipe, written, mainQueue,
                   mainPc, dialogOpen, existing_show, apiVars, hostVars, forced_season, shown,
                   episodes, movies, subtitles, emitted,
                   cancelMidRun, procAtEmit, fileAtEmit, commitBy, warnings>>

OnAddShow ==
    /\ dialogOpen /\ mainPc = "idle"
    /\ ~is_processing
    /\ \E selected \in {existing_show}, show_title \in ShowTitles,
          season_num \in SeasonChoices, episode_paths \in EpisodePaths,
          preset_key \in Presets :
          StartShowAdd(selected, show_title, season_num, episode_paths, preset_key)

\* Subtitle files picked by the user, as copied into the movie directory.
SubtitleChoices == {<<"subs.srt">>}

\* _on_add() with the Movie radio checked: _start_movie_add().
StartMovieAdd(title, movie_path, subtitle_paths, preset_key) ==
    LET movie_dir == make_movie_dir(slugify(title))
        movie_dest == movie_dir \o <<"movie" \o ext(movie_path, preset_key)>>
        thumb_dest == movie_dir \o <<"thumbnail.jpg">>
        sub_dest(i) == movie_dir \o <<"subtitle_" \o ToString(i - 1) \o ".srt">>
        subtitle_entries ==
            [i \in 1..Len(subtitle_paths) |->
                [sub_path |-> relpath(sub_dest(i), get_library_root),
                 label |-> subtitle_paths[i], is_embedded |-> FALSE,
                 track_index |-> 0]]
    IN
    /\ nJobs < MaxJobs
    /\ is_processing' = TRUE
    /\ files' = files \cup {thumb_dest}
                      \cup {sub_dest(i) : i \in 1..Len(subtitle_paths)}
    /\ pending_data' = [type |-> "movie", title |-> title,
                        rel_movie |-> relpath(movie_dest, get_library_root),
                        rel_thumb |-> relpath(thumb_dest, get_library_root),
                        subtitle_entries |-> subtitle_entries,
                        movie_dir |-> movie_dir]
    /\ StartThread(movie_path, movie_dest, preset_key, "_on_single_complete",
                   MovieProgressSlot,
                   [season_id |-> NoId, episode_number |-> 0, items |-> 1])
    /\ UNCHANGED <<cancelled, process, proc, pipe, written, mainQueue,
                   mainPc, dialogOpen, acceptTimer, existing_show, apiVars, hostVars, forced_season,
                   episode_queue, shown,
                   current_ep_index, dbVars, emitted, cancelMidRun, procAtEmit,
                   fileAtEmit, commitBy, warnings, completions, escaped>>

OnAddMovie ==
    /\ dialogOpen /\ mainPc = "idle"
    /\ existing_show = NoId          \* the Movie radio is disabled otherwise
    /\ ~is_processing
    /\ \E title \in MovieTitles, subtitle_paths \in SubtitleChoices,
          preset_key \in Presets :
          StartMovieAdd(title, MovieFile, subtitle_paths, preset_key)

\* A queued finished_signal reaches its slot when the GUI thread is in its
\* event loop; deliveries are FIFO.
Delivery == Head(mainQueue)
CanDeliver(slotName) ==
    /\ mainPc = "idle"
    /\ mainQueue # <<>>
    /\ slot[Delivery.job] = slotName

Warning(kind, position, job, message) ==
    [kind |-> kind, position |-> position, job |-> job, message |-> message]

\* _on_episode_complete(success, message), after the warning box: the part
\* that reads the queue, commits the row and moves on.  outcome is the
\* outcome of the add_episode write.
EpisodeCommitAndNext(j, success, outcome) ==
    IF current_ep_index >= Len(episode_queue)
    THEN \* self._episode_queue[self._current_ep_index] raises IndexError
         /\ escaped' = Append(escaped, [slot |-> "_on_episode_complete",
                                        job |-> j, error |-> "IndexError"])
         /\ NoThreadStarted
         /\ UNCHANGED <<current_ep_index, episodes, nextId, commitBy,
                        completions, acceptTimer>>
    ELSE LET ep_data == episode_queue[current_ep_index + 1]
             row == add_episode(ep_data.season_id, ep_data.episode_number,
                                ep_data.title, ep_data.rel_path)
         IN
         IF success /\ outcome = "StorageError"
         THEN \* add_episode raises, the slot is left at that point
              /\ escaped' = Append(escaped, [slot |-> "_on_episode_complete",
                                             job |-> j, error |-> "StorageError"])
              /\ NoThreadStarted
              /\ UNCHANGED <<current_ep_index, episodes, nextId, commitBy,
                             completions, acceptTimer>>
         ELSE /\ IF success
                 THEN /\ episodes' = row.episodes
                      /\ nextId' = [nextId EXCEPT !.episodes = @ + 1]
                      /\ commitBy' = commitBy \cup
                             {[table |-> "episodes", id |-> row.id, job |-> j]}
                 ELSE UNCHANGED <<episodes, nextId, commitBy>>
              /\ current_ep_index' = current_ep_index + 1
              /\ process_next_episode(episode_queue, current_ep_index + 1, pending_data)

OnEpisodeComplete ==
    /\ CanDeliver("_on_episode_complete")
    /\ mainQueue' = Tail(mainQueue)
    /\ warnings' = IF Delivery.success THEN warnings
                   ELSE Append(warnings, Warning("Episode Error", current_ep_index + 1,
                                                 Delivery.job, Delivery.message))
    /\ \E outcome \in IF Delivery.success THEN DbOutcomes ELSE {"ok"} :
           EpisodeCommitAndNext(Delivery.job, Delivery.success, outcome)
    /\ UNCHANGED <<cancelled, process, envVars, mainPc, dialogOpen, shown,
                   existing_show, apiVars, hostVars, forced_season, is_processing, episode_queue, pending_data, shows, seasons,
                   movies, subtitles, emitted, cancelMidRun, procAtEmit, fileAtEmit>>

\* _reset_ui()
reset_ui == is_processing' = FALSE

\* _on_single_complete(False, message): error box, rmtree of
\* _pending_data.get("movie_dir", ""), _reset_ui().
SingleFailed(j, message) ==
    /\ warnings' = Append(warnings, Warning("Error", 0, j, message))
    /\ files' = IF "movie_dir" \in DOMAIN pending_data
                THEN rmtree(pending_data.movie_dir, files) ELSE files
    /\ reset_ui
    /\ UNCHANGED <<movies, subtitles, nextId, commitBy, completions, acceptTimer,
                   escaped>>

\* _on_single_complete(True, message): add_movie, movie_added, accept timer.
SingleCommit(j, outcome) ==
    IF "title" \notin DOMAIN pending_data
    THEN \* data["title"] raises KeyError
         /\ escaped' = Append(escaped, [slot |-> "_on_single_complete",
                                        job |-> j, error |-> "KeyError"])
         /\ UNCHANGED <<movies, subtitles, nextId, commitBy, completions,
                        acceptTimer, warnings, files, is_processing>>
    ELSE LET row == add_movie(pending_data.title, pending_data.rel_movie,
                              pending_data.rel_thumb, pending_data.subtitle_entries)
         IN
         IF outcome = "StorageError"
         THEN /\ escaped' = Append(escaped, [slot |-> "_on_single_complete",
                                             job |-> j, error |-> "StorageError"])
              /\ UNCHANGED <<movies, subtitles, nextId, commitBy, completions,
                             acceptTimer, warnings, files, is_processing>>
         ELSE /\ movies' = row.movies
              /\ subtitles' = row.subtitles
              /\ nextId' = [nextId EXCEPT
                               !.movies = @ + 1,
                               !.subtitles = @ + Len(pending_data.subtitle_entries)]
              /\ commitBy' = commitBy \cup
                     {[table |-> "movies", id |-> row.id, job |-> j]}
              /\ completions' = Append(completions,
                                       [kind |-> "movie", id |-> row.id,
                                        season_id |-> NoId, items |-> 1])
              /\ acceptTimer' = TRUE
              /\ UNCHANGED <<escaped, warnings, files, is_processing>>

OnSingleComplete ==
    /\ CanDeliver("_on_single_complete")
    /\ mainQueue' = Tail(mainQueue)
    /\ IF Delivery.success
       THEN \E outcome \in DbOutcomes : SingleCommit(Delivery.job, outcome)
       ELSE SingleFailed(Delivery.job, Delivery.message)
    /\ UNCHANGED <<jobVars, proc, pipe, written, mainPc, dialogOpen, shown,
                   existing_show, apiVars, hostVars, forced_season, compression_thread, episode_queue, current_ep_index,
                   pending_data, shows, seasons, episodes, emitted, cancelMidRun,
                   procAtEmit, fileAtEmit, jobItem>>

\* The progress values run() has emitted so far, in order.
ProgressValues(j) == SelectSeq(emitted[j], LAMBDA s : s.sig = "progress")

\* int(num / den) for den > 0: truncation toward zero.
int(num, den) == IF num >= 0 THEN num \div den ELSE 0 - ((0 - num) \div den)

\* _update_episode_progress(percent, index, total):
\* int(((index + percent / 100.0) / total) * 100), percent in tenths here.
update_episode_progress(p, index, total) == int(index * 1000 + p, total * 10)

\* _update_progress(percent): int(percent).
update_progress(p) == int(p, 10)

\* The index the slot would read from the dialog when the value is handled.
CurrentIndex(j) == current_ep_index

\* The index the lambda passes: idx as bound when the thread was created.
BoundIndex(j) == progress_slot[j].index

\* Every progress value job j has emitted has been handled.
AllShown(j) == Len(shown[j]) = Len(ProgressValues(j))

progressFrame ==
    UNCHANGED <<jobVars, envVars, dbVars, histVars, mainQueue, mainPc, dialogOpen,
                acceptTimer, existing_show, apiVars, hostVars, forced_season, is_processing,
                compression_thread, episode_queue, current_ep_index, pending_data>>

\* The next queued progress value of an episode job reaches the lambda.
OnEpisodeProgress(j) ==
    /\ mainPc = "idle"
    /\ progress_slot[j].name = "_update_episode_progress"
    /\ ~AllShown(j)
    /\ LET p == ProgressValues(j)[Len(shown[j]) + 1].value
       IN shown' = [shown EXCEPT ![j] =
              Append(@, update_episode_progress(p, BoundIndex(j), progress_slot[j].total))]
    /\ progressFrame

\* The next queued progress value of a movie job reaches _update_progress.
OnMovieProgress(j) ==
    /\ mainPc = "idle"
    /\ progress_slot[j].name = "_update_progress"
    /\ ~AllShown(j)
    /\ LET p == ProgressValues(j)[Len(shown[j]) + 1].value
       IN shown' = [shown EXCEPT ![j] = Append(@, update_progress(p))]
    /\ progressFrame

\* _on_cancel(), up to self._compression_thread.wait(2000); without a
\* thread, or when nothing is processing, the whole handler.
OnCancel ==
    /\ dialogOpen /\ mainPc = "idle"
    /\ IF is_processing
       THEN IF compression_thread # NoJob
            THEN /\ cancel(compression_thread)
                 /\ mainPc' = "cancelWait"
                 /\ UNCHANGED <<is_processing, dialogOpen>>
            ELSE /\ reset_ui
                 /\ UNCHANGED <<cancelled, proc, cancelMidRun, mainPc, dialogOpen>>
       ELSE \* self.reject()
            /\ dialogOpen' = FALSE
            /\ UNCHANGED <<cancelled, proc, cancelMidRun, mainPc, is_processing>>
    /\ UNCHANGED <<nJobs, preset, slot, progress_slot, shown, input_path,
                   output_path, pc, process, pipe,
                   written, files, mainQueue, acceptTimer, existing_show, apiVars, hostVars,
                   forced_season, compression_thread,
                   episode_queue, current_ep_index, pending_data, dbVars, emitted,
                   procAtEmit, fileAtEmit, jobItem, commitBy, warnings,
                   completions, escaped>>

\* wait(2000) returns, because run() has returned or because 2 s have
\* elapsed; the rest of _on_cancel().
WaitReturns(j) == pc[j] = "done" \/ TRUE

OnCancelReturn ==
    /\ mainPc = "cancelWait"
    /\ WaitReturns(compression_thread)
    /\ compression_thread' = NoJob
    /\ reset_ui
    /\ mainPc' = "idle"
    /\ UNCHANGED <<nJobs, preset, slot, progress_slot, shown, input_path,
                   output_path, pc, cancelled,
                   process, envVars, mainQueue, dialogOpen, acceptTimer,
                   existing_show, apiVars, hostVars, forced_season, episode_queue, current_ep_index, pending_data, dbVars, histVars>>

\* The single-shot timer fires: self.accept() closes the dialog.
Accept ==
    /\ acceptTimer /\ mainPc = "idle"
    /\ acceptTimer' = FALSE
    /\ dialogOpen' = FALSE
    /\ UNCHANGED <<jobVars, envVars, mainQueue, mainPc, existing_show, apiVars, hostVars, shown,
                   forced_season, is_processing, compression_thread, episode_queue, current_ep_index,
                   pending_data, dbVars, histVars>>

\* ------------------------------------------------------------------ spec
PosterOf(title) == make_movie_dir(slugify(title)) \o <<"poster.jpg">>

\* The movie an earlier import (title "Alpha", an encoding preset) left in
\* the catalog, and its files.
ExistingMovie ==
    [id |-> 1, title |-> "Alpha",
     movie_path |-> relpath(make_movie_dir(slugify("Alpha")) \o <<"movie.mp4">>,
                            get_library_root),
     thumb_path |-> relpath(make_movie_dir(slugify("Alpha")) \o <<"thumbnail.jpg">>,
                            get_library_root),
     last_position |-> 0, duration |-> 0]

ExistingFiles ==
    {PosterOf("Alpha"), get_library_root \o ExistingMovie.movie_path,
     get_library_root \o ExistingMovie.thumb_path}

\* No add_movie is in progress; no Database call has been made directly.
ClosedConn == [pc |-> "closed"]
NoCall == [op |-> "none", seq |-> 0]

\* The tables hold the catalog c, its shows and movies created within one
\* second (date_added has the granularity of a second).  The column is
\* followed for the rows the Database calls below insert.
TablesAre(c) ==
    /\ shows = c.shows
    /\ seasons = c.seasons
    /\ episodes = c.episodes
    /\ movies = c.movies
    /\ subtitles = c.subtitles
    /\ nextId = c.nextId
    /\ date_added = [movies |-> [id \in {m.id : m \in c.movies} |-> 0],
                     shows |-> [id \in {sh.id : sh \in c.shows} |-> 0]]

\* The catalog every run of the dialog starts from: one show without
\* seasons and one movie.
SmallCatalog ==
    [shows |-> {[id |-> ExistingShowId, title |-> "Alpha",
                 thumb_path |-> relpath(PosterOf("Alpha"), get_library_root)]},
     seasons |-> {},
     episodes |-> {},
     movies |-> {ExistingMovie},
     subtitles |-> {},
     nextId |-> [shows |-> ExistingShowId + 1, seasons |-> 1, episodes |-> 1,
                 movies |-> ExistingMovie.id + 1, subtitles |-> 1]]

InitTables == TablesAre(SmallCatalog)

\* No thread yet, nothing queued, nothing observed.
InitRun ==
    /\ slot = [j \in Jobs |-> "none"]
    /\ progress_slot = [j \in Jobs |-> NoProgressSlot]
    /\ shown = [j \in Jobs |-> <<>>]
    /\ cancelled = [j \in Jobs |-> FALSE]
    /\ process = [j \in Jobs |-> FALSE]
    /\ proc = [j \in Jobs |-> "none"]
    /\ pipe = [j \in Jobs |-> 0]
    /\ written = [j \in Jobs |-> 0]
    /\ mainQueue = <<>>
    /\ mainPc = "idle"
    /\ acceptTimer = FALSE
    /\ is_processing = FALSE
    /\ compression_thread = NoJob
    /\ episode_queue = <<>>
    /\ current_ep_index = 0
    /\ pending_data = [type |-> "unset"]
    /\ emitted = [j \in Jobs |-> <<>>]
    /\ cancelMidRun = [j \in Jobs |-> FALSE]
    /\ procAtEmit = [j \in Jobs |-> "none"]
    /\ fileAtEmit = [j \in Jobs |-> FALSE]
    /\ jobItem = [j \in Jobs |-> [season_id |-> NoId, episode_number |-> 0,
                                   items |-> 1]]
    /\ commitBy = {}
    /\ warnings = <<>>
    /\ completions = <<>>
    /\ escaped = <<>>
    /\ conn = ClosedConn
    /\ ret = NoCall
    /\ touched = <<>>

\* What every initial state of the dialog shares: no thread yet, the catalog
\* holds one show without seasons and one movie.
InitCommon == InitRun /\ InitTables

\* os.sep of a POSIX host and of a Windows host.
Posix == "/"
Nt == "\\"

\* AddMovieDialog.__init__: opened by "add content" (no existing show) or by
\* "add season" for the show of the catalog, at its next season number.
InitDialog ==
    /\ InitCommon
    /\ nJobs = 0
    /\ preset = [j \in Jobs |-> "none"]
    /\ input_path = [j \in Jobs |-> NoFile]
    /\ output_path = [j \in Jobs |-> <<>>]
    /\ pc = [j \in Jobs |-> "unstarted"]
    /\ files = ExistingFiles
    /\ dialogOpen = TRUE
    /\ \/ /\ existing_show = NoId
          /\ forced_season = NoSeason
       \/ /\ existing_show = ExistingShowId
          /\ forced_season = get_next_season_number(ExistingShowId)

\* The dialog on a POSIX host.  No action reads sep: on another host the
\* runs are the same, with the other separator in the paths.
Init == InitDialog /\ sep = Posix

Worker == \E j \in Jobs : RunStart(j) \/ Copy(j) \/ Launch(j) \/ ReadLine(j)
                              \/ ReadRaise(j) \/ ReadEOF(j)
Encoder == \E j \in Jobs : ProcProgress(j) \/ ProcExit(j)
Gui == OnAddShow \/ OnAddMovie \/ OnEpisodeComplete \/ OnSingleComplete
           \/ OnCancel \/ OnCancelReturn \/ Accept

Next == Worker \/ Encoder \/ Gui

Spec == Init /\ [][Next]_vars

\* ------------------------------------------- the dialog with its progress bar
\* Spec leaves the progress signals unobserved.  Here they are handled too:
\* the values of a job reach their slot in order, and before the job's
\* terminal signal reaches its slot (the GUI thread's event queue is FIFO).
OnEpisodeCompleteInOrder ==
    /\ mainQueue # <<>>
    /\ AllShown(Delivery.job)
    /\ OnEpisodeComplete

OnSingleCompleteInOrder ==
    /\ mainQueue # <<>>
    /\ AllShown(Delivery.job)
    /\ OnSingleComplete

GuiProgress == \E j \in Jobs : OnEpisodeProgress(j) \/ OnMovieProgress(j)

GuiInOrder == OnAddShow \/ OnAddMovie \/ OnEpisodeCompleteInOrder
                  \/ OnSingleCompleteInOrder \/ OnCancel \/ OnCancelReturn \/ Accept

NextProgress == Worker \/ Encoder \/ GuiProgress \/ GuiInOrder

SpecProgress == Init /\ [][NextProgress]_vars

\* --------------------------------------- the dialog on either kind of host
\* Imports that are left to run (the user does not press Cancel), on a
\* POSIX or a Windows host.
InitHost == InitDialog /\ sep \in {Posix, Nt}

NextHost == Worker \/ Encoder \/ OnAddShow \/ OnAddMovie \/ OnEpisodeComplete
                \/ OnSingleComplete \/ Accept

SpecHost == InitHost /\ [][NextHost]_vars

\* ------------------------------------------- one job and whoever owns it
\* A CompressionThread on its own: created and started with any preset on
\* any of JobInputs (a probed duration of 10 s or none; a progress line that
\* is not a time sample, or a sample below, at, inside, at the end of or
\* beyond the duration), with or without an older file at its output path, and
\* an owner that may call cancel() at any moment.
JobLines == {OutTime(0 - 5), OutTime(0), OutTime(5), OutTime(10), OutTime(20),
             OtherLine}

JobInputs ==
    {SourceFile(<<Tok("word", "Alpha")>>, d, <<line>>) :
        d \in {NoDuration, 10}, line \in JobLines}

JobOutput == make_movie_dir("alpha") \o <<"movie.mp4">>

InitJob ==
    /\ InitCommon
    /\ nJobs = 1
    /\ \E key \in Presets, source \in JobInputs :
          /\ preset = [j \in Jobs |-> IF j = 1 THEN key ELSE "none"]
          /\ input_path = [j \in Jobs |-> IF j = 1 THEN source ELSE NoFile]
    /\ output_path = [j \in Jobs |-> IF j = 1 THEN JobOutput ELSE <<>>]
    /\ pc = [j \in Jobs |-> IF j = 1 THEN "created" ELSE "unstarted"]
    /\ files \in {ExistingFiles \ {JobOutput}, ExistingFiles \cup {JobOutput}}
    /\ dialogOpen = FALSE
    /\ existing_show = NoId
    /\ forced_season = NoSeason
    /\ sep = Posix

CallCancel ==
    /\ \E j \in 1..nJobs : cancel(j)
    /\ UNCHANGED <<nJobs, preset, slot, progress_slot, input_path, output_path,
                   pc, process, pipe, written, files, guiVars, dbVars, apiVars, hostVars, emitted, procAtEmit,
                   fileAtEmit, jobItem, commitBy, warnings, completions, escaped>>

NextJob == Worker \/ Encoder \/ CallCancel

SpecJob == InitJob /\ [][NextJob]_vars

\* ------------------------------------------------ Database, call by call
\* The five tables as one value.
Tables == [shows |-> shows, seasons |-> seasons, episodes |-> episodes,
           movies |-> movies, subtitles |-> subtitles]

\* Rows in ascending id order, the order of a table scan.
RECURSIVE ByRowId(_)
ByRowId(rows) ==
    IF rows = {} THEN <<>>
    ELSE LET first == CHOOSE r \in rows : \A q \in rows : r.id <= q.id
         IN <<first>> \o ByRowId(rows \ {first})

\* Movie(id=row["id"], ...) with
\* subtitle_paths = [(s["sub_path"], s["label"]) for s in subs]
Movie(row, subs) ==
    [id |-> row.id, title |-> row.title, movie_path |-> row.movie_path,
     thumb_path |-> row.thumb_path, last_position |-> row.last_position,
     duration |-> row.duration,
     subtitle_paths |-> [i \in 1..Len(subs) |-> <<subs[i].sub_path, subs[i].label>>]]

\* SELECT * FROM movies WHERE id = ?, then
\* SELECT sub_path, label FROM subtitles WHERE movie_id = ?, on given tables.
SelectMovie(ms, ss, movie_id) ==
    IF \E m \in ms : m.id = movie_id
    THEN Movie(CHOOSE m \in ms : m.id = movie_id,
               ByRowId({sub \in ss : sub.movie_id = movie_id}))
    ELSE None

\* get_movie with the subtitles of every movie (no WHERE movie_id = ?).
get_movie_any_subtitles(movie_id) ==
    IF \E m \in movies : m.id = movie_id
    THEN Movie(CHOOSE m \in movies : m.id = movie_id, ByRowId(subtitles))
    ELSE None

get_movie(movie_id) == SelectMovie(movies, subtitles, movie_id)

\* _get_seasons: Season(...) per row, with its episodes.  The lists are kept
\* as sets here: their order is not looked at.
Season(row, es) ==
    [id |-> row.id, show_id |-> row.show_id, season_number |-> row.season_number,
     episodes |-> {e \in es : e.season_id = row.id}]

SelectShow(shs, ses, es, show_id) ==
    IF \E sh \in shs : sh.id = show_id
    THEN LET row == CHOOSE sh \in shs : sh.id = show_id
         IN [id |-> row.id, title |-> row.title, thumb_path |-> row.thumb_path,
             seasons |-> {Season(se, es) : se \in {x \in ses : x.show_id = show_id}}]
    ELSE None

get_show(show_id) == SelectShow(shows, seasons, episodes, show_id)

\* DELETE FROM movies WHERE id = ? with the subtitles left behind (foreign
\* keys not enforced).
delete_movie_no_cascade(movie_id) ==
    LET movie == get_movie(movie_id) IN
    IF movie = None
    THEN [result |-> None, movies |-> movies, subtitles |-> subtitles]
    ELSE [result |-> movie,
          movies |-> {m \in movies : m.id # movie_id},
          subtitles |-> subtitles]

\* delete_movie: get_movie, then DELETE FROM movies WHERE id = ?; the
\* subtitles go with ON DELETE CASCADE (PRAGMA foreign_keys = ON).
delete_movie(movie_id) ==
    LET movie == get_movie(movie_id) IN
    IF movie = None
    THEN [result |-> None, movies |-> movies, subtitles |-> subtitles]
    ELSE [result |-> movie,
          movies |-> {m \in movies : m.id # movie_id},
          subtitles |-> {sub \in subtitles : sub.movie_id # movie_id}]

\* DELETE FROM shows WHERE id = ? cascading to the seasons only.
delete_show_one_level(show_id) ==
    LET show == get_show(show_id) IN
    IF show = None
    THEN [result |-> None, shows |-> shows, seasons |-> seasons, episodes |-> episodes]
    ELSE [result |-> show,
          shows |-> {sh \in shows : sh.id # show_id},
          seasons |-> {se \in seasons : se.show_id # show_id},
          episodes |-> episodes]

\* delete_show: get_show, then DELETE FROM shows WHERE id = ?; seasons and
\* their episodes go with ON DELETE CASCADE.
delete_show(show_id) ==
    LET show == get_show(show_id)
        kept == {se \in seasons : se.show_id # show_id}
    IN
    IF show = None
    THEN [result |-> None, shows |-> shows, seasons |-> seasons, episodes |-> episodes]
    ELSE [result |-> show,
          shows |-> {sh \in shows : sh.id # show_id},
          seasons |-> kept,
          episodes |-> {e \in episodes : \E se \in kept : se.id = e.season_id}]

\* UPDATE movies SET last_position = ? WHERE id = ?
update_playback_position(ms, movie_id, position) ==
    {IF m.id = movie_id THEN [m EXCEPT !.last_position = position] ELSE m : m \in ms}

\* UPDATE movies SET duration = ?, last_position = 0 WHERE id = ?
update_duration_resets_position(ms, movie_id, d) ==
    {IF m.id = movie_id THEN [m EXCEPT !.duration = d, !.last_position = 0] ELSE m
        : m \in ms}

\* UPDATE movies SET duration = ? WHERE id = ?
update_duration(ms, movie_id, d) ==
    {IF m.id = movie_id THEN [m EXCEPT !.duration = d] ELSE m : m \in ms}

\* UPDATE episodes SET last_position = ? WHERE id = ?
update_episode_position(es, episode_id, position) ==
    {IF e.id = episode_id THEN [e EXCEPT !.last_position = position] ELSE e : e \in es}

\* UPDATE episodes SET duration = ? WHERE id = ?
update_episode_duration(es, episode_id, d) ==
    {IF e.id = episode_id THEN [e EXCEPT !.duration = d] ELSE e : e \in es}

\* SQL LOWER() on the titles used here, and the rank of a lowered title in
\* the BINARY collation.
LOWER(title) ==
    CASE title = "Alpha" -> "alpha"
      [] title = "Beta" -> "beta"
      [] OTHER -> title
Collation(text) == CASE text = "alpha" -> 1 [] text = "beta" -> 2

\* SELECT ... ORDER BY key DESC with the rows of equal keys newest id first,
\* as a backward scan of an index on the key would give them.
ORDER_BY_index_scan(keyed, ascending) ==
    LET n == Cardinality(keyed)
        before(a, b) == IF a.key = b.key THEN (a.row.id < b.row.id) = ascending
                        ELSE (a.key < b.key) = ascending
        sorted == CHOOSE list \in [1..n -> keyed] :
                      \A i, k \in 1..n : i < k => before(list[i], list[k])
    IN [i \in 1..n |-> sorted[i].row]

\* SELECT ... ORDER BY key ASC|DESC on a table without an index on the key:
\* SQLite scans the table in rowid order and sorts the rows with its merge
\* sorter, which keeps rows of equal keys in scan order for ASC and for DESC.
\* keyed: the rows, each with the value of its ordering term.
ORDER_BY(keyed, ascending) ==
    LET n == Cardinality(keyed)
        before(a, b) == IF a.key = b.key THEN a.row.id < b.row.id
                        ELSE (a.key < b.key) = ascending
        sorted == CHOOSE list \in [1..n -> keyed] :
                      \A i, k \in 1..n : i < k => before(list[i], list[k])
    IN [i \in 1..n |-> sorted[i].row]

\* order_clause: LOWER(title) for sort_by = "title", else date_added.
order_clause(table, sort_by, row) ==
    [key |-> IF sort_by = "title" THEN Collation(LOWER(row.title))
             ELSE date_added[table][row.id],
     row |-> row]

\* get_all_movies(sort_by, ascending): the Movie list.
get_all_movies(sort_by, ascending) ==
    ORDER_BY({order_clause("movies", sort_by, get_movie(m.id)) : m \in movies},
             ascending)

\* get_all_shows(sort_by, ascending): the Show list, each with its seasons.
get_all_shows(sort_by, ascending) ==
    ORDER_BY({order_clause("shows", sort_by, get_show(sh.id)) : sh \in shows},
             ascending)

\* Database calls made in one run.
MaxCalls == 3

\* Arguments on offer: the ids in use and one that is not; a second show
\* title, movie titles equal up to case or different, no or two subtitles.
ShowIds == 1..nextId.shows
SeasonIds == 1..nextId.seasons
EpisodeIds == 1..nextId.episodes
MovieIds == 1..nextId.movies
CatalogShowTitles == {"Beta"}
CatalogMovieTitles == {"alpha", "Beta"}
CatalogSeasonNumbers == {1, 2, 4}
Positions == {5}
Durations == {10}
SubtitleEntry(n) ==
    [sub_path |-> <<"movies", "x", "subtitle_" \o ToString(n) \o ".srt">>,
     label |-> <<"subs" \o ToString(n) \o ".srt">>, is_embedded |-> FALSE,
     track_index |-> 0]
CatalogSubtitleEntries == {<<>>, <<SubtitleEntry(0), SubtitleEntry(1)>>}

catalogFrame == UNCHANGED <<jobVars, envVars, guiVars, histVars, hostVars>>

\* DEFAULT CURRENT_TIMESTAMP of an INSERT: the second of the newest row so
\* far, or a later one.
Latest ==
    LET all == {date_added.movies[id] : id \in DOMAIN date_added.movies}
               \cup {date_added.shows[id] : id \in DOMAIN date_added.shows}
    IN CHOOSE t \in all : \A u \in all : u <= t
CURRENT_TIMESTAMP == {Latest, Latest + 1}

\* A call returns: what it was, what it gave, what the tables were before,
\* and the id of the movie an open add_movie is inserting, if any.
Called(op, args, result, raised) ==
    ret' = [op |-> op, seq |-> ret.seq + 1, args |-> args, result |-> result,
            raised |-> raised, before |-> Tables,
            in_flight |-> IF conn.pc = "open" THEN conn.movie_id ELSE NoId]

CanCall == ret.seq < MaxCalls
CanWrite == CanCall /\ conn.pc = "closed"

DbAddShow ==
    /\ CanWrite
    /\ \E title \in CatalogShowTitles :
          LET row == add_show(title, relpath(PosterOf(title), get_library_root))
          IN /\ shows' = row.shows
             /\ nextId' = [nextId EXCEPT !.shows = @ + 1]
             /\ \E now \in CURRENT_TIMESTAMP :
                   date_added' = [date_added EXCEPT !.shows = (row.id :> now) @@ @]
             /\ Called("add_show", [title |-> title], row.id, "none")
    /\ UNCHANGED <<seasons, episodes, movies, subtitles, conn, touched>>
    /\ catalogFrame

\* The INSERT of a child row with foreign keys not enforced (SQLite's
\* default, without the PRAGMA): accepted whatever the parent id.
foreign_keys_off(parents, id) == TRUE

\* FOREIGN KEY (...) REFERENCES parents(id) with PRAGMA foreign_keys = ON:
\* the INSERT is accepted when the parent row exists.
FOREIGN_KEY(parents, id) == \E parent \in parents : parent.id = id

\* add_season: the INSERT raises IntegrityError when show_id has no row
\* (FOREIGN KEY with foreign_keys = ON).
DbAddSeason ==
    /\ CanWrite
    /\ \E show_id \in ShowIds, season_number \in CatalogSeasonNumbers :
          LET row == add_season(show_id, season_number)
              args == [show_id |-> show_id, season_number |-> season_number]
          IN IF FOREIGN_KEY(shows, show_id)
             THEN /\ seasons' = row.seasons
                  /\ nextId' = [nextId EXCEPT !.seasons = @ + 1]
                  /\ Called("add_season", args, row.id, "none")
             ELSE /\ UNCHANGED <<seasons, nextId>>
                  /\ Called("add_season", args, NoId, "IntegrityError")
    /\ UNCHANGED <<shows, episodes, movies, subtitles, conn, date_added, touched>>
    /\ catalogFrame

DbAddEpisode ==
    /\ CanWrite
    /\ \E season_id \in SeasonIds :
          LET row == add_episode(season_id, 1, <<"Alpha">>,
                                 <<"movies", "alpha", "s01e01", "episode.mkv">>)
              args == [season_id |-> season_id, episode_number |-> 1]
          IN IF FOREIGN_KEY(seasons, season_id)
             THEN /\ episodes' = row.episodes
                  /\ nextId' = [nextId EXCEPT !.episodes = @ + 1]
                  /\ Called("add_episode", args, row.id, "none")
             ELSE /\ UNCHANGED <<episodes, nextId>>
                  /\ Called("add_episode", args, NoId, "IntegrityError")
    /\ UNCHANGED <<shows, seasons, movies, subtitles, conn, date_added, touched>>
    /\ catalogFrame

\* add_movie, statement by statement.  The INSERTs are made inside the
\* connection's implicit transaction: they are in conn, not in the tables,
\* until conn.commit().
DbAddMovieInsert ==
    /\ CanWrite
    /\ \E title \in CatalogMovieTitles, subtitle_entries \in CatalogSubtitleEntries :
          LET movie_path == <<"movies", slugify(title), "movie.mp4">>
              thumb_path == <<"movies", slugify(title), "thumbnail.jpg">>
              movie_id == nextId.movies
          IN conn' = [pc |-> "open",
                      args |-> [title |-> title, movie_path |-> movie_path,
                                thumb_path |-> thumb_path,
                                subtitle_entries |-> subtitle_entries],
                      movie_id |-> movie_id,
                      inserted |-> 0,
                      movies |-> movies \cup
                          {[id |-> movie_id, title |-> title,
                            movie_path |-> movie_path, thumb_path |-> thumb_path,
                            last_position |-> 0, duration |-> 0]},
                      subtitles |-> subtitles,
                      before |-> Tables,
                      seq |-> ret.seq + 1]
    /\ UNCHANGED <<dbVars, ret, date_added, touched>>
    /\ catalogFrame

\* The tables after conn.close() without a commit, every write of the
\* connection kept (autocommit).
close_keeps_writes(c) == [movies |-> c.movies, subtitles |-> c.subtitles]

\* The tables after conn.close() without a commit: the open transaction is
\* rolled back.
close_without_commit(c) == [movies |-> movies, subtitles |-> subtitles]

\* add_movie left by an exception: finally conn.close().
AddMovieRaises ==
    LET after == close_without_commit(conn) IN
    /\ movies' = after.movies
    /\ subtitles' = after.subtitles
    /\ conn' = ClosedConn
    /\ ret' = [op |-> "add_movie", seq |-> conn.seq, args |-> conn.args,
               result |-> NoId, raised |-> "StorageError", before |-> conn.before,
               in_flight |-> NoId, inserted |-> conn.inserted]
    /\ UNCHANGED <<shows, seasons, episodes, nextId, date_added, touched>>

\* The next INSERT INTO subtitles.
DbAddMovieSubtitle ==
    /\ conn.pc = "open"
    /\ conn.inserted < Len(conn.args.subtitle_entries)
    /\ \E outcome \in DbOutcomes :
          IF outcome = "StorageError"
          THEN AddMovieRaises
          ELSE LET i == conn.inserted + 1
                   sub == conn.args.subtitle_entries[i]
               IN /\ conn' = [conn EXCEPT
                        !.inserted = i,
                        !.subtitles = @ \cup
                            {[id |-> nextId.subtitles + i - 1,
                              movie_id |-> conn.movie_id,
                              sub_path |-> sub.sub_path, label |-> sub.label,
                              is_embedded |-> sub.is_embedded,
                              track_index |-> sub.track_index]}]
                  /\ UNCHANGED <<dbVars, ret, date_added, touched>>
    /\ catalogFrame

\* conn.commit() and return movie_id.
DbAddMovieCommit ==
    /\ conn.pc = "open"
    /\ conn.inserted = Len(conn.args.subtitle_entries)
    /\ \E outcome \in DbOutcomes :
          IF outcome = "StorageError"
          THEN AddMovieRaises
          ELSE /\ movies' = conn.movies
               /\ subtitles' = conn.subtitles
               /\ nextId' = [nextId EXCEPT !.movies = @ + 1,
                                           !.subtitles = @ + conn.inserted]
               /\ conn' = ClosedConn
               /\ ret' = [op |-> "add_movie", seq |-> conn.seq, args |-> conn.args,
                          result |-> conn.movie_id, raised |-> "none",
                          before |-> conn.before, in_flight |-> NoId,
                          inserted |-> conn.inserted]
               /\ \E now \in CURRENT_TIMESTAMP :
                     date_added' =
                         [date_added EXCEPT !.movies = (conn.movie_id :> now) @@ @]
               /\ UNCHANGED <<shows, seasons, episodes, touched>>
    /\ catalogFrame

DbGetMovie ==
    /\ CanCall
    /\ \E movie_id \in MovieIds :
          Called("get_movie", [movie_id |-> movie_id], get_movie(movie_id), "none")
    /\ UNCHANGED <<dbVars, conn, date_added, touched>>
    /\ catalogFrame

DbGetShow ==
    /\ CanCall
    /\ \E show_id \in ShowIds :
          Called("get_show", [show_id |-> show_id], get_show(show_id), "none")
    /\ UNCHANGED <<dbVars, conn, date_added, touched>>
    /\ catalogFrame

DbGetNextSeasonNumber ==
    /\ CanCall
    /\ \E show_id \in ShowIds :
          Called("get_next_season_number", [show_id |-> show_id],
                 get_next_season_number(show_id), "none")
    /\ UNCHANGED <<dbVars, conn, date_added, touched>>
    /\ catalogFrame

\* get_continue_watching(), called by MainWindow._refresh_continue_watching;
\* the method is not in database.py and is written here from the
\* description of the view: the movies and episodes with
\* 0 < last_position < duration, an episode with the id, title and poster
\* of its show and the number of its season, in the keys the caller reads.
\* No column of the schema records when a position was written, so the
\* rows come in the order of their ids, movies first.

\* Started, whether finished or not.
WasStarted(row) == 0 < row.last_position

\* Started and not finished: 0 < position < duration.
InProgress(row) == 0 < row.last_position /\ row.last_position < row.duration

get_continue_watching ==
    LET ms == {get_movie(m.id) : m \in {x \in movies : InProgress(x)}}
        es == {e \in episodes : InProgress(e)}
        entry(e) ==
            LET se == CHOOSE x \in seasons : x.id = e.season_id
                sh == CHOOSE x \in shows : x.id = se.show_id
            IN [type |-> "episode", item |-> e, show_id |-> sh.id,
                show_title |-> sh.title, show_thumb |-> sh.thumb_path,
                season_number |-> se.season_number]
    IN [i \in 1..Cardinality(ms) |-> [type |-> "movie", item |-> ByRowId(ms)[i]]]
       \o [i \in 1..Cardinality(es) |-> entry(ByRowId(es)[i])]

\* MainWindow._refresh_continue_watching: cw_items = get_continue_watching().
DbGetContinueWatching ==
    /\ CanCall
    /\ Called("get_continue_watching", <<>>, get_continue_watching, "none")
    /\ UNCHANGED <<dbVars, conn, date_added, touched>>
    /\ catalogFrame

\* A title, character by character.
Chars(title) ==
    CASE title = "Alpha" -> <<"A", "l", "p", "h", "a">>
      [] title = "alpha" -> <<"a", "l", "p", "h", "a">>
      [] title = "Beta" -> <<"B", "e", "t", "a">>

\* The case folding of SQLite's LIKE: the ASCII letters only.
NOCASE(ch) ==
    CASE ch = "A" -> "a"
      [] ch = "B" -> "b"
      [] ch = "L" -> "l"
      [] ch = "P" -> "p"
      [] OTHER -> ch

\* text LIKE pattern (no ESCAPE clause): % matches any run of characters,
\* _ any one character, every other character itself up to ASCII case.
RECURSIVE LIKE(_, _)
LIKE(text, pattern) ==
    IF pattern = <<>> THEN text = <<>>
    ELSE IF Head(pattern) = "%"
         THEN \/ LIKE(text, Tail(pattern))
              \/ text # <<>> /\ LIKE(Tail(text), pattern)
         ELSE /\ text # <<>>
              /\ Head(pattern) = "_" \/ NOCASE(Head(pattern)) = NOCASE(Head(text))
              /\ LIKE(Tail(text), Tail(pattern))

\* search_movies(query, sort_by, ascending):
\* SELECT * FROM movies WHERE title LIKE '%' || query || '%' ORDER BY ...
search_movies(query, sort_by, ascending) ==
    LET found == {m \in movies : LIKE(Chars(m.title), <<"%">> \o query \o <<"%">>)}
    IN ORDER_BY({order_clause("movies", sort_by, get_movie(m.id)) : m \in found},
                ascending)

\* What the user types in the search box: nothing, letters in either case,
\* letters no title has, and the characters _ and %.
Queries == {<<>>, <<"L", "P">>, <<"x">>, <<"_", "t">>, <<"%">>}

DbSearchMovies ==
    /\ CanCall
    /\ \E query \in Queries, sort_by \in {"title", "date_added"}, ascending \in BOOLEAN :
          Called("search_movies",
                 [query |-> query, sort_by |-> sort_by, ascending |-> ascending],
                 search_movies(query, sort_by, ascending), "none")
    /\ UNCHANGED <<dbVars, conn, date_added, touched>>
    /\ catalogFrame

\* get_all_movies(sort_by, True) and then get_all_movies(sort_by, False).
DbGetAllMovies ==
    /\ CanCall
    /\ \E sort_by \in {"title", "date_added"} :
          Called("get_all_movies", [sort_by |-> sort_by],
                 [ascending |-> get_all_movies(sort_by, TRUE),
                  descending |-> get_all_movies(sort_by, FALSE)], "none")
    /\ UNCHANGED <<dbVars, conn, date_added, touched>>
    /\ catalogFrame

\* get_all_shows(sort_by, True) and then get_all_shows(sort_by, False).
DbGetAllShows ==
    /\ CanCall
    /\ \E sort_by \in {"title", "date_added"} :
          Called("get_all_shows", [sort_by |-> sort_by],
                 [ascending |-> get_all_shows(sort_by, TRUE),
                  descending |-> get_all_shows(sort_by, FALSE)], "none")
    /\ UNCHANGED <<dbVars, conn, date_added, touched>>
    /\ catalogFrame

DbDeleteMovie ==
    /\ CanWrite
    /\ \E movie_id \in MovieIds :
          LET after == delete_movie(movie_id)
          IN /\ movies' = after.movies
             /\ subtitles' = after.subtitles
             /\ Called("delete_movie", [movie_id |-> movie_id], after.result, "none")
    /\ UNCHANGED <<shows, seasons, episodes, nextId, conn, date_added, touched>>
    /\ catalogFrame

DbDeleteShow ==
    /\ CanWrite
    /\ \E show_id \in ShowIds :
          LET after == delete_show(show_id)
          IN /\ shows' = after.shows
             /\ seasons' = after.seasons
             /\ episodes' = after.episodes
             /\ Called("delete_show", [show_id |-> show_id], after.result, "none")
    /\ UNCHANGED <<movies, subtitles, nextId, conn, date_added, touched>>
    /\ catalogFrame

DbUpdatePlaybackPosition ==
    /\ CanWrite
    /\ \E movie_id \in MovieIds, position \in Positions :
          /\ movies' = update_playback_position(movies, movie_id, position)
          /\ touched' = Append(touched, [type |-> "movie", id |-> movie_id])
          /\ Called("update_playback_position",
                    [id |-> movie_id, value |-> position], None, "none")
    /\ UNCHANGED <<shows, seasons, episodes, subtitles, nextId, conn, date_added>>
    /\ catalogFrame

DbUpdateDuration ==
    /\ CanWrite
    /\ \E movie_id \in MovieIds, d \in Durations :
          /\ movies' = update_duration(movies, movie_id, d)
          /\ Called("update_duration", [id |-> movie_id, value |-> d], None, "none")
    /\ UNCHANGED <<shows, seasons, episodes, subtitles, nextId, conn, date_added, touched>>
    /\ catalogFrame

DbUpdateEpisodePosition ==
    /\ CanWrite
    /\ \E episode_id \in EpisodeIds, position \in Positions :
          /\ episodes' = update_episode_position(episodes, episode_id, position)
          /\ touched' = Append(touched, [type |-> "episode", id |-> episode_id])
          /\ Called("update_episode_position",
                    [id |-> episode_id, value |-> position], None, "none")
    /\ UNCHANGED <<shows, seasons, movies, subtitles, nextId, conn, date_added>>
    /\ catalogFrame

DbUpdateEpisodeDuration ==
    /\ CanWrite
    /\ \E episode_id \in EpisodeIds, d \in Durations :
          /\ episodes' = update_episode_duration(episodes, episode_id, d)
          /\ Called("update_episode_duration",
                    [id |-> episode_id, value |-> d], None, "none")
    /\ UNCHANGED <<shows, seasons, movies, subtitles, nextId, conn, date_added, touched>>
    /\ catalogFrame

\* A catalog earlier calls have built: two shows, show 1 with the seasons 1,
\* 2 and 4, show 2 with season 1, an episode in a season of each, and a
\* second movie, watched in part, with a subtitle.  The first episode was
\* watched to its end, the second in part; the first movie was not started.
FullCatalog ==
    [shows |-> SmallCatalog.shows \cup
               {[id |-> 2, title |-> "Beta",
                 thumb_path |-> relpath(PosterOf("Beta"), get_library_root)]},
     seasons |-> {[id |-> 1, show_id |-> 1, season_number |-> 1],
                  [id |-> 2, show_id |-> 1, season_number |-> 2],
                  [id |-> 3, show_id |-> 2, season_number |-> 1],
                  [id |-> 4, show_id |-> 1, season_number |-> 4]},
     episodes |-> {[id |-> 1, season_id |-> 1, episode_number |-> 1,
                    title |-> <<"Alpha">>,
                    movie_path |-> <<"movies", "alpha", "s01e01", "episode.mkv">>,
                    last_position |-> 10, duration |-> 10],
                   [id |-> 2, season_id |-> 3, episode_number |-> 1,
                    title |-> <<"Alpha">>,
                    movie_path |-> <<"movies", "beta", "s01e01", "episode.mkv">>,
                    last_position |-> 5, duration |-> 10]},
     movies |-> {ExistingMovie,
                 [id |-> 2, title |-> "Beta",
                  movie_path |-> <<"movies", "beta", "movie.mp4">>,
                  thumb_path |-> <<"movies", "beta", "thumbnail.jpg">>,
                  last_position |-> 5, duration |-> 10]},
     subtitles |-> {[id |-> 1, movie_id |-> 2,
                     sub_path |-> <<"movies", "beta", "subtitle_0.srt">>,
                     label |-> <<"beta.srt">>, is_embedded |-> FALSE,
                     track_index |-> 0]},
     nextId |-> [shows |-> 3, seasons |-> 5, episodes |-> 3, movies |-> 3,
                 subtitles |-> 2]]

CatalogSamples == {SmallCatalog, FullCatalog}

\* The Database object on its own, its methods called in any order with
\* any of the arguments above; no dialog is open and no job exists.
InitCatalog ==
    /\ InitRun
    /\ \E c \in CatalogSamples : TablesAre(c)
    /\ nJobs = 0
    /\ preset = [j \in Jobs |-> "none"]
    /\ input_path = [j \in Jobs |-> NoFile]
    /\ output_path = [j \in Jobs |-> <<>>]
    /\ pc = [j \in Jobs |-> "unstarted"]
    /\ files = ExistingFiles
    /\ dialogOpen = FALSE
    /\ existing_show = NoId
    /\ forced_season = NoSeason
    /\ sep = Posix

NextCatalog ==
    \/ DbAddShow \/ DbAddSeason \/ DbAddEpisode
    \/ DbAddMovieInsert \/ DbAddMovieSubtitle \/ DbAddMovieCommit
    \/ DbGetMovie \/ DbGetShow \/ DbGetNextSeasonNumber
    \/ DbGetAllMovies \/ DbGetAllShows \/ DbSearchMovies
    \/ DbGetContinueWatching
    \/ DbDeleteMovie \/ DbDeleteShow
    \/ DbUpdatePlaybackPosition \/ DbUpdateDuration
    \/ DbUpdateEpisodePosition \/ DbUpdateEpisodeDuration

SpecCatalog == InitCatalog /\ [][NextCatalog]_vars

\* ============================================================ properties
Started(j) == pc[j] # "unstarted"
Done(j) == pc[j] = "done"
Running(j) == Started(j) /\ ~Done(j)
Terminal(j) == emitted[j][Len(emitted[j])]
Succeeded(j) == Done(j) /\ Terminal(j).success
Failed(j) == Done(j) /\ ~Terminal(j).success
FinishedCount(j) ==
    Cardinality({i \in DOMAIN emitted[j] : emitted[j][i].sig = "finished"})
EpisodeJob(j) == Started(j) /\ slot[j] = "_on_episode_complete"
MovieJob(j) == Started(j) /\ slot[j] = "_on_single_complete"
ItemJobs(season_id, episode_number) ==
    {j \in Jobs : EpisodeJob(j) /\ jobItem[j].season_id = season_id
                  /\ jobItem[j].episode_number = episode_number}
SeasonRows(season_id) == {e \in episodes : e.season_id = season_id}
HasEscaped(error) == \E i \in DOMAIN escaped : escaped[i].error = error
\* Nothing is running and nothing is waiting to be handled.
Quiet ==
    /\ mainPc = "idle"
    /\ mainQueue = <<>>
    /\ \A j \in Jobs : ~Running(j)

\* C1: a job whose cancel() was called mid-run (after run() started, before
\* its terminal signal) ends with the cancelled result, (False,
\* "Compression cancelled."), never with the encode failure and never with
\* success.
C1_CancelledMidRunReportsCancelled ==
    \A j \in Jobs :
        (cancelMidRun[j] /\ Done(j)) => Terminal(j) = Finished(FALSE, MsgCancelled)

\* C2: when a job that was cancelled mid-run has emitted its terminal
\* signal, no file exists at its output path, whatever the preset.
C2_CancelledMidRunLeavesNoOutput ==
    \A j \in Jobs : (cancelMidRun[j] /\ Done(j)) => ~fileAtEmit[j]

\* C3: when a job emits its terminal signal, the encoder it launched has
\* been terminated or has exited: it is never still running untouched.
C3_EncoderStoppedBeforeTerminalSignal ==
    \A j \in Jobs : Done(j) => procAtEmit[j] # "running"

\* C4: every run emits finished_signal exactly once, as the last signal of
\* the run: none before run() has come to its end, one when it has, and no
\* progress value after it.
C4_TerminalSignalExactlyOnce ==
    \A j \in Jobs :
        /\ ~Done(j) => FinishedCount(j) = 0
        /\ Done(j) => /\ FinishedCount(j) = 1
                      /\ Terminal(j).sig = "finished"
                      /\ Len(SelectSeq(mainQueue, LAMBDA d : d.job = j)) <= 1

\* C4 witness: a run that ended in its "except Exception" clause, raised
\* inside the loop while it was reading a line of the encoder.
C4_Witness ==
    \E j \in Jobs :
        /\ Done(j)
        /\ written[j] >= 1
        /\ FinishedCount(j) = 1
        /\ Terminal(j) = Finished(FALSE, MsgError)

\* C5: every Movie row and every Episode row was committed on the success
\* signal of the job that wrote the row's media file, and a job that ended
\* in failure or cancellation has no Episode row for its item.
C5_RowsCommittedOnOwnJobSuccess ==
    /\ \A c \in commitBy :
          /\ Succeeded(c.job)
          /\ c.table = "episodes" =>
                \E e \in episodes :
                    /\ e.id = c.id
                    /\ EpisodeJob(c.job)
                    /\ e.season_id = jobItem[c.job].season_id
                    /\ e.episode_number = jobItem[c.job].episode_number
          /\ c.table = "movies" =>
                \E m \in movies :
                    /\ m.id = c.id
                    /\ MovieJob(c.job)
                    /\ m.movie_path = relpath(output_path[c.job], get_library_root)
    /\ \A j \in Jobs :
          (EpisodeJob(j) /\ Failed(j)) =>
              ~\E e \in episodes : /\ e.season_id = jobItem[j].season_id
                                   /\ e.episode_number = jobItem[j].episode_number

\* C6: once a batch of n files is reported complete, each of its n items
\* has been run, and its season holds exactly the rows numbered with the
\* positions whose job succeeded, each with the path and the title computed
\* for the file at that position.
C6_BatchRowsAreSucceededPositions ==
    \A k \in DOMAIN completions :
        completions[k].kind = "show" =>
            LET s == completions[k].season_id
                n == completions[k].items
            IN /\ \A i \in 1..n : \E j \in ItemJobs(s, i) : Done(j)
               /\ {e.episode_number : e \in SeasonRows(s)}
                      = {i \in 1..n : \E j \in ItemJobs(s, i) : Succeeded(j)}
               /\ \A e \in SeasonRows(s) :
                      \E j \in ItemJobs(s, e.episode_number) :
                          /\ input_path[j] = AllFiles[e.episode_number]
                          /\ e.movie_path = relpath(output_path[j], get_library_root)
                          /\ e.title = extract_episode_title(input_path[j].name)

\* C7: at most one job started by the dialog is running at any time.
C7_AtMostOneJobRunning ==
    Cardinality({j \in Jobs : Running(j)}) <= 1

\* C8: after the user has cancelled during a batch (cancel() reached the
\* batch's current job mid-run), no later item of that batch gets a job and
\* no Episode row is committed for a later item of that batch.
C8_CancelStopsBatch ==
    \A j \in Jobs :
        (EpisodeJob(j) /\ cancelMidRun[j]) =>
            /\ \A k \in Jobs :
                  (EpisodeJob(k) /\ jobItem[k].season_id = jobItem[j].season_id)
                      => jobItem[k].episode_number <= jobItem[j].episode_number
            /\ \A e \in SeasonRows(jobItem[j].season_id) :
                  e.episode_number <= jobItem[j].episode_number

\* The dialog is left in its processing state with nothing running, nothing
\* queued and no close pending.
Stuck ==
    /\ Quiet
    /\ dialogOpen
    /\ is_processing
    /\ ~acceptTimer

\* C9: a storage error raised by add_episode or add_movie while a terminal
\* signal is handled does not leave the dialog stuck in its processing
\* state without a report.
C9_StorageErrorIsHandled ==
    ~(HasEscaped("StorageError") /\ Stuck)

\* The batch of season_id was cancelled: cancel() was called on one of its jobs.
BatchCancelled(season_id) ==
    \E k \in Jobs : /\ EpisodeJob(k)
                    /\ jobItem[k].season_id = season_id
                    /\ cancelled[k]

\* C10: the row of a successful item is committed before the job of the
\* next item is started and before completion is reported, so whenever
\* nothing is running or queued the rows of a batch that was not cancelled
\* are exactly its items that have succeeded (commits rejected by the store
\* are C9's subject).
C10_RowsFollowSuccessImmediately ==
    (Quiet /\ ~HasEscaped("StorageError")) =>
        \A j \in Jobs :
            (EpisodeJob(j) /\ ~BatchCancelled(jobItem[j].season_id)) =>
                (Succeeded(j) <=>
                    \E e \in episodes : /\ e.season_id = jobItem[j].season_id
                                        /\ e.episode_number = jobItem[j].episode_number)

\* C11: a batch reported complete is reported exactly once, after the job of
\* its last item has ended, and each of its failed items has exactly one
\* "Episode Error" warning, carrying that item's position.
C11_BatchReportedOnceWithWarnings ==
    \A k \in DOMAIN completions :
        completions[k].kind = "show" =>
            LET s == completions[k].season_id
                n == completions[k].items
            IN /\ \A m \in DOMAIN completions :
                      (completions[m].kind = "show" /\ completions[m].season_id = s)
                          => m = k
               /\ \A i \in 1..n : \E j \in ItemJobs(s, i) : Done(j)
               /\ \A j \in Jobs :
                      (EpisodeJob(j) /\ jobItem[j].season_id = s /\ Failed(j)) =>
                          /\ Cardinality({w \in DOMAIN warnings :
                                             warnings[w].job = j}) = 1
                          /\ \A w \in DOMAIN warnings :
                                 warnings[w].job = j =>
                                     /\ warnings[w].kind = "Episode Error"
                                     /\ warnings[w].position = jobItem[j].episode_number

\* C12: no error box (the movie error dialog, the batch "Episode Error"
\* warning) is shown for a job that ended with the cancelled result.
C12_CancelNotShownAsError ==
    \A w \in DOMAIN warnings : warnings[w].message # MsgCancelled

\* Media paths of the rows of the catalog, relative to the library root.
MediaPaths == {m.movie_path : m \in movies} \cup {e.movie_path : e \in episodes}

\* The output path of a running job is the media path of no committed row.
OutputOwnedByJob ==
    \A j \in Jobs :
        Running(j) => relpath(output_path[j], get_library_root) \notin MediaPaths

\* No step removes the media file of a committed row.
CommittedFilesKept ==
    \A p \in MediaPaths :
        (get_library_root \o p) \in files => (get_library_root \o p) \in files'

\* C13: while a job is running its output path is the media path of no
\* committed Movie or Episode row, and no cleanup (deleting the output file,
\* removing the movie directory) removes the media file of a committed row.
C13_OutputPathExclusivelyOwned ==
    []OutputOwnedByJob /\ [][CommittedFilesKept]_vars

\* Positions of emitted[j] that carry the progress value 100.
Hundreds(j) == {i \in DOMAIN emitted[j] : emitted[j][i] = Progress(Percent100)}

\* C14: a job emits the progress value 100 at most once, as its last
\* progress value, immediately followed by the success terminal signal, and
\* only on confirmed completion (the encoder exited with status 0, or the
\* copy finished); a run that ends in failure or cancellation never emits it.
C14_HundredOnlyOnCompletion ==
    \A j \in Jobs :
        /\ Cardinality(Hundreds(j)) <= 1
        /\ \A i \in Hundreds(j) :
              /\ i + 1 = Len(emitted[j])
              /\ emitted[j][i + 1].sig = "finished"
              /\ emitted[j][i + 1].success
              /\ \/ procAtEmit[j] = "exited0"
                 \/ codec(preset[j]) = "copy" /\ fileAtEmit[j]
        /\ Failed(j) => Hundreds(j) = {}

\* C14 witness: an encode whose time sample reached the probed duration
\* (reported as 99.9) and whose encoder then exited with status 0.
C14_Witness ==
    \E j \in Jobs :
        /\ Done(j)
        /\ codec(preset[j]) # "copy"
        /\ emitted[j] = <<Progress(PercentCap), Progress(Percent100),
                          Finished(TRUE, MsgComplete)>>

\* C15: every progress value emitted is in [0, 100], and every value an
\* encode job emits before its run has ended is in [0, 99.9].
C15_ProgressInRange ==
    \A j \in Jobs :
        \A i \in DOMAIN emitted[j] :
            emitted[j][i].sig = "progress" =>
                /\ 0 <= emitted[j][i].value
                /\ emitted[j][i].value <= Percent100
                /\ (codec(preset[j]) # "copy" /\ ~Done(j))
                       => emitted[j][i].value <= PercentCap

\* (i + p / 100) / n * 100 truncated to an integer, p in tenths of a percent.
Aggregate(i, p, n) == int(i * 1000 + p, n * 10)

\* C16: the value set on the progress bar for the k-th progress value p of
\* the job of item i (0-indexed) of an n-item batch is (i + p/100) / n * 100
\* truncated to an integer, with the i and n of the job that emitted p,
\* whatever the dialog's current item is when the value is handled.
C16_AggregateUsesEmittingJobIndex ==
    \A j \in Jobs :
        EpisodeJob(j) =>
            \A k \in DOMAIN shown[j] :
                shown[j][k] = Aggregate(jobItem[j].episode_number - 1,
                                        ProgressValues(j)[k].value,
                                        jobItem[j].items)

\* C16 witness: the copy of the second of two episodes has shown 50 for its
\* progress value 0 and 100 for its progress value 100.
C16_Witness ==
    \E j \in Jobs :
        /\ EpisodeJob(j)
        /\ jobItem[j].episode_number = 2
        /\ jobItem[j].items = 2
        /\ shown[j] = <<50, 100>>

\* C17: a copy-preset job never launches the encoder, and when its copy
\* succeeds it has emitted exactly the progress values 0 and 100 followed by
\* the success terminal signal.
C17_CopyEmitsZeroHundredSuccess ==
    \A j \in Jobs :
        (Started(j) /\ codec(preset[j]) = "copy") =>
            /\ proc[j] = "none"
            /\ ~process[j]
            /\ written[j] = 0
            /\ Succeeded(j) =>
                   emitted[j] = <<Progress(0), Progress(Percent100),
                                  Finished(TRUE, MsgCopied)>>

\* C17 witness: a copy-preset job has ended with success and its file is
\* at the output path.
C17_Witness ==
    \E j \in Jobs :
        /\ codec(preset[j]) = "copy"
        /\ Succeeded(j)
        /\ fileAtEmit[j]

\* C18: when the copy of a copy-preset job raises, the job reports failure
\* with the error's message, has emitted no progress value 100, and, the
\* output path having held no file before, holds none when the failure
\* signal is emitted.
C18_FailedCopyLeavesNoPartialFile ==
    [][\A j \in Jobs :
          (pc[j] = "copying" /\ pc'[j] = "done" /\ ~emitted'[j][Len(emitted'[j])].success)
              => /\ emitted'[j][Len(emitted'[j])] = Finished(FALSE, MsgIOError)
                 /\ \A i \in DOMAIN emitted'[j] : emitted'[j][i] # Progress(Percent100)
                 /\ output_path[j] \notin files => output_path[j] \notin files']_vars

\* C19: when the encoder has exited with a non-zero status and no cancel
\* was requested, the terminal signal is a failure carrying the error text
\* and no file is at the output path when it is emitted.
C19_EncoderFailureCleansUp ==
    \A j \in Jobs :
        (Done(j) /\ procAtEmit[j] = "exitedErr" /\ ~cancelled[j]) =>
            /\ ~fileAtEmit[j]
            /\ ~Terminal(j).success
            /\ Terminal(j).message \in {MsgFFmpegError, MsgError}

\* C19 witness: an encoder that had written output exited with a non-zero
\* status, uncancelled, and the job reported the encoder's error.
C19_Witness ==
    \E j \in Jobs :
        /\ Done(j)
        /\ ~cancelled[j]
        /\ written[j] >= 1
        /\ procAtEmit[j] = "exitedErr"
        /\ Terminal(j) = Finished(FALSE, MsgFFmpegError)

\* run() waits for the encoder and nothing obliges the encoder to move: it
\* has not been terminated, and it need neither write a line nor exit.
WaitsOnUnterminatedEncoder(j) ==
    /\ pc[j] = "reading"
    /\ pipe[j] = 0
    /\ proc[j] = "running"

\* C20: after cancel() a running job goes on to its terminal signal with a
\* fair worker thread and an encoder that exits when terminated: a cancelled
\* job is never left waiting on an encoder that was not terminated.
C20_CancelledJobNotLeftWaiting ==
    \A j \in Jobs : cancelled[j] => ~WaitsOnUnterminatedEncoder(j)

\* An encoding job whose input the probe found no duration for.
Unprobed(j) ==
    /\ Started(j)
    /\ codec(preset[j]) # "copy"
    /\ get_video_duration(input_path[j]) = NoDuration

\* C21: a job whose input has no probed duration emits no intermediate
\* progress value, ends with a failure only for a cause of its own (launch,
\* exception, cancel, encoder exit status), and, left uncancelled and free of
\* exceptions, ends as the encoder's exit status says: 100 then success on
\* status 0, the encoder's failure otherwise.
C21_UnprobedDurationDoesNotFail ==
    \A j \in Jobs :
        Unprobed(j) =>
            /\ \A i \in DOMAIN emitted[j] :
                  emitted[j][i].sig = "progress" =>
                      /\ emitted[j][i].value = Percent100
                      /\ procAtEmit[j] = "exited0"
            /\ (Done(j) /\ procAtEmit[j] = "none") =>
                   Terminal(j).message \in {MsgNotFound, MsgError}
            /\ (Done(j) /\ ~cancelled[j] /\ procAtEmit[j] # "none"
                    /\ Terminal(j).message # MsgError) =>
                   IF procAtEmit[j] = "exited0"
                   THEN emitted[j] = <<Progress(Percent100), Finished(TRUE, MsgComplete)>>
                   ELSE emitted[j] = <<Finished(FALSE, MsgFFmpegError)>>

\* C21 witness: the encoder of an unprobed input wrote a time sample, run()
\* read it, the encoder exited with status 0 and the job succeeded.
C21_Witness ==
    \E j \in Jobs :
        /\ Unprobed(j)
        /\ input_path[j].lines[1].key = "out_time_ms"
        /\ written[j] >= 1
        /\ pipe[j] = 0
        /\ Succeeded(j)

\* No cancel() has been called on any job.
NeverCancelled == \A j \in Jobs : ~cancelled[j]

\* The batch in _episode_queue has been reported complete, every one of its
\* items having had its job.
BatchReported ==
    /\ \E k \in DOMAIN completions :
          /\ completions[k].kind = "show"
          /\ completions[k].season_id = episode_queue[1].season_id
    /\ \A i \in 1..Len(episode_queue) :
          ItemJobs(episode_queue[1].season_id, i) # {}

\* Each job of a batch is for one of its items, no item has two jobs, and an
\* item's job is started after the job of the item before it has ended.
JobsFollowItems ==
    \A j \in Jobs :
        EpisodeJob(j) =>
            LET s == jobItem[j].season_id
                i == jobItem[j].episode_number
            IN /\ i \in 1..jobItem[j].items
               /\ ItemJobs(s, i) = {j}
               /\ i > 1 => \E k \in ItemJobs(s, i - 1) : k < j /\ Done(k)

\* C22: with every job delivering its terminal signal and no cancel, a batch
\* of n items gets one job per item, in order, none outside 1..n, and does
\* not stall: once nothing is running or queued, the batch has been reported
\* complete with all of its n jobs run.
C22_BatchRunsToCompletion ==
    NeverCancelled =>
        /\ JobsFollowItems
        /\ (Quiet /\ episode_queue # <<>>) => BatchReported

\* C25: no two Season rows of one Show carry the same season_number and
\* every season_number is at least 1 (a season at a number already used is
\* rejected before any write).
C25_SeasonNumbersUniquePerShow ==
    \A s1 \in seasons :
        /\ s1.season_number >= 1
        /\ \A s2 \in seasons :
              (s1.show_id = s2.show_id /\ s1.season_number = s2.season_number)
                  => s1.id = s2.id

\* The rows add_movie writes for the call ret describes.
AddedMovie ==
    [id |-> ret.result, title |-> ret.args.title, movie_path |-> ret.args.movie_path,
     thumb_path |-> ret.args.thumb_path, last_position |-> 0, duration |-> 0]

SubtitlesOf(movie_id) == {sub \in subtitles : sub.movie_id = movie_id}

\* C23: add_movie is all-or-nothing.  When it returns an id, the Movie row
\* and one Subtitle row per entry passed in are in the catalog and nothing
\* else changed; when a subtitle insert or the commit raises, the catalog is
\* what it was before the call; and while the call is in progress no other
\* call sees its Movie or any of its Subtitle rows.
C23_AddMovieAllOrNothing ==
    /\ ret.op = "add_movie" =>
          IF ret.raised = "none"
          THEN LET entries == ret.args.subtitle_entries
                   mine == SubtitlesOf(ret.result)
               IN /\ movies = ret.before.movies \cup {AddedMovie}
                  /\ AddedMovie \notin ret.before.movies
                  /\ subtitles \ mine = ret.before.subtitles
                  /\ Cardinality(mine) = Len(entries)
                  /\ \A i \in DOMAIN entries :
                        \E sub \in mine :
                            /\ sub.sub_path = entries[i].sub_path
                            /\ sub.label = entries[i].label
                            /\ sub.is_embedded = entries[i].is_embedded
                            /\ sub.track_index = entries[i].track_index
          ELSE Tables = ret.before
    /\ conn.pc = "open" =>
          /\ ~\E m \in movies : m.id = conn.movie_id
          /\ SubtitlesOf(conn.movie_id) = {}
    /\ (ret.op = "get_movie" /\ ret.in_flight = ret.args.movie_id) =>
          ret.result = None

\* C23 witness: add_movie raised after it had inserted the Movie row and at
\* least one of its Subtitle rows.
C23_Witness ==
    /\ ret.op = "add_movie"
    /\ ret.raised = "StorageError"
    /\ ret.inserted >= 1

\* C24: after delete_show(id) on an existing show, get_show(id) is None, no
\* Season row of the show and no Episode row of its seasons is left, and the
\* other shows, their seasons and episodes, the movies and the subtitles are
\* what they were.
C24_DeleteShowCascades ==
    (ret.op = "delete_show" /\ ret.result # None) =>
        LET id == ret.args.show_id
            b == ret.before
            gone == {se \in b.seasons : se.show_id = id}
        IN /\ get_show(id) = None
           /\ \A se \in seasons : se.show_id # id
           /\ \A e \in episodes : ~\E se \in gone : se.id = e.season_id
           /\ shows = {sh \in b.shows : sh.id # id}
           /\ seasons = b.seasons \ gone
           /\ episodes = {e \in b.episodes : ~\E se \in gone : se.id = e.season_id}
           /\ movies = b.movies
           /\ subtitles = b.subtitles

\* C24 witness: a show with a season holding an episode was deleted while
\* another show has an episode of its own.
C24_Witness ==
    /\ ret.op = "delete_show"
    /\ ret.result # None
    /\ \E se \in ret.result.seasons : se.episodes # {}
    /\ episodes # {}

\* C26: get_next_season_number(show_id) is 1 for a show without seasons and
\* the largest season number of that show plus 1 otherwise, whatever the
\* seasons of other shows, and the call leaves the catalog as it was.
C26_NextSeasonNumberIsMaxPlusOne ==
    /\ \A show_id \in ShowIds :
          LET numbers == {se.season_number :
                             se \in {x \in seasons : x.show_id = show_id}}
          IN IF numbers = {}
             THEN get_next_season_number(show_id) = 1
             ELSE \E m \in numbers :
                      /\ \A n \in numbers : n <= m
                      /\ get_next_season_number(show_id) = m + 1
    /\ ret.op = "get_next_season_number" =>
          /\ Tables = ret.before
          /\ ret.result = get_next_season_number(ret.args.show_id)

\* C26 witness: the call on a show with the seasons 1, 2 and 4 gave 5 while
\* another show has seasons too.
C26_Witness ==
    /\ ret.op = "get_next_season_number"
    /\ {se.season_number : se \in {x \in seasons : x.show_id = ret.args.show_id}}
           = {1, 2, 4}
    /\ ret.result = 5
    /\ \E se \in seasons : se.show_id # ret.args.show_id

\* C27: get_movie on the id add_movie returned gives a Movie with the title,
\* media path and thumbnail path passed in, position 0, duration 0, and the
\* (sub_path, label) pairs of the subtitle entries passed in, in their order.
C27_AddMovieGetMovieRoundTrip ==
    (ret.op = "add_movie" /\ ret.raised = "none") =>
        LET entries == ret.args.subtitle_entries
        IN get_movie(ret.result) =
               [id |-> ret.result, title |-> ret.args.title,
                movie_path |-> ret.args.movie_path,
                thumb_path |-> ret.args.thumb_path,
                last_position |-> 0, duration |-> 0,
                subtitle_paths |->
                    [i \in 1..Len(entries) |-> <<entries[i].sub_path, entries[i].label>>]]

\* C27 witness: add_movie returned for a movie with two subtitles while
\* another movie has a subtitle.
C27_Witness ==
    /\ ret.op = "add_movie"
    /\ ret.raised = "none"
    /\ Len(ret.args.subtitle_entries) = 2
    /\ \E sub \in subtitles : sub.movie_id # ret.result

\* C28: delete_movie(id) on an existing movie returns the movie as it was
\* just before, its subtitles included, and removes its row and its
\* Subtitle rows and nothing else; on an unknown id it returns None and the
\* catalog is what it was.
C28_DeleteMovieReturnsSnapshot ==
    ret.op = "delete_movie" =>
        LET id == ret.args.movie_id
            b == ret.before
            snapshot == SelectMovie(b.movies, b.subtitles, id)
        IN /\ ret.result = snapshot
           /\ IF snapshot = None
              THEN Tables = b
              ELSE /\ movies = {m \in b.movies : m.id # id}
                   /\ subtitles = {sub \in b.subtitles : sub.movie_id # id}
                   /\ shows = b.shows
                   /\ seasons = b.seasons
                   /\ episodes = b.episodes

\* C28 witness: a movie with a subtitle was deleted and another movie is
\* still in the catalog.
C28_Witness ==
    /\ ret.op = "delete_movie"
    /\ ret.result # None
    /\ Len(ret.result.subtitle_paths) >= 1
    /\ movies # {}

\* The rows of after are the rows of before, the row id differing at most in
\* field, where it holds value.
OnlyFieldSet(before, after, id, field, value) ==
    /\ {r.id : r \in after} = {r.id : r \in before}
    /\ Cardinality(after) = Cardinality(before)
    /\ \A r \in after :
          \E r0 \in before :
              /\ r0.id = r.id
              /\ IF r.id = id
                 THEN r = [r0 EXCEPT ![field] = value]
                 ELSE r = r0

UpdateOps == {"update_playback_position", "update_duration",
              "update_episode_position", "update_episode_duration"}

\* C29: update_playback_position sets only last_position of the addressed
\* movie and update_duration only its duration; applied twice each gives
\* what it gives applied once; the two commute; on an unknown id the rows
\* are unchanged; the same for the two episode updates; and a call changes
\* no other table.
C29_FieldUpdatesIndependent ==
    /\ \A id \in MovieIds, p \in Positions \cup {0}, d \in Durations \cup {0} :
          LET P(ms) == update_playback_position(ms, id, p)
              D(ms) == update_duration(ms, id, d)
          IN /\ OnlyFieldSet(movies, P(movies), id, "last_position", p)
             /\ OnlyFieldSet(movies, D(movies), id, "duration", d)
             /\ P(P(movies)) = P(movies)
             /\ D(D(movies)) = D(movies)
             /\ P(D(movies)) = D(P(movies))
             /\ (~\E m \in movies : m.id = id) =>
                    (P(movies) = movies /\ D(movies) = movies)
    /\ \A id \in EpisodeIds, p \in Positions \cup {0}, d \in Durations \cup {0} :
          LET P(es) == update_episode_position(es, id, p)
              D(es) == update_episode_duration(es, id, d)
          IN /\ OnlyFieldSet(episodes, P(episodes), id, "last_position", p)
             /\ OnlyFieldSet(episodes, D(episodes), id, "duration", d)
             /\ P(P(episodes)) = P(episodes)
             /\ D(D(episodes)) = D(episodes)
             /\ P(D(episodes)) = D(P(episodes))
             /\ (~\E e \in episodes : e.id = id) =>
                    (P(episodes) = episodes /\ D(episodes) = episodes)
    /\ ret.op \in UpdateOps =>
          /\ ret.raised = "none"
          /\ shows = ret.before.shows
          /\ seasons = ret.before.seasons
          /\ subtitles = ret.before.subtitles
          /\ ret.op \in {"update_playback_position", "update_duration"} =>
                /\ episodes = ret.before.episodes
                /\ OnlyFieldSet(ret.before.movies, movies, ret.args.id,
                                IF ret.op = "update_duration" THEN "duration"
                                ELSE "last_position", ret.args.value)
          /\ ret.op \in {"update_episode_position", "update_episode_duration"} =>
                /\ movies = ret.before.movies
                /\ OnlyFieldSet(ret.before.episodes, episodes, ret.args.id,
                                IF ret.op = "update_episode_duration" THEN "duration"
                                ELSE "last_position", ret.args.value)

\* C29 witness: update_duration changed the duration of a movie whose
\* last_position is not 0, with another movie in the catalog.
C29_Witness ==
    /\ ret.op = "update_duration"
    /\ \E m \in movies, m0 \in ret.before.movies :
          /\ m.id = ret.args.id
          /\ m0.id = m.id
          /\ m.duration # m0.duration
          /\ m.last_position # 0
    /\ Cardinality(movies) >= 2

Reverse(list) == [i \in 1..Len(list) |-> list[Len(list) + 1 - i]]

\* C30: get_all_movies by title, ascending, gives the movies with their
\* lowered titles in non-decreasing order, and the descending result is the
\* ascending result reversed, element by element.
C30_DescendingIsReverseOfAscending ==
    ret.op = "get_all_movies" /\ ret.args.sort_by = "title" =>
        LET up == ret.result.ascending
            down == ret.result.descending
        IN /\ \A i, k \in DOMAIN up :
                 i < k => Collation(LOWER(up[i].title)) <= Collation(LOWER(up[k].title))
           /\ down = Reverse(up)

\* The table a listing call reads.
ListedTable == IF ret.op = "get_all_shows" THEN "shows" ELSE "movies"
ListedByDate ==
    /\ ret.op \in {"get_all_movies", "get_all_shows"}
    /\ ret.args.sort_by = "date_added"

Contains(title, query) ==
    \E at \in 0..(Len(Chars(title)) - Len(query)) :
       \A k \in 1..Len(query) : NOCASE(query[k]) = NOCASE(Chars(title)[at + k])

\* C32: search_movies(query, sort_by, ascending) returns the movies whose
\* title contains query as a case-insensitive substring, in the order
\* get_all_movies gives them: the listing with the other movies left out.
\* The empty query returns every movie.
C32_SearchIsSubstringMatch ==
    ret.op = "search_movies" =>
        /\ ret.result =
              SelectSeq(get_all_movies(ret.args.sort_by, ret.args.ascending),
                        LAMBDA m : Contains(m.title, ret.args.query))
        /\ ret.args.query = <<>> =>
              ret.result = get_all_movies(ret.args.sort_by, ret.args.ascending)

InView(type, id) ==
    \E i \in DOMAIN ret.result :
       ret.result[i].type = type /\ ret.result[i].item.id = id

LastTouch(type, id) ==
    LET at == {i \in DOMAIN touched : touched[i] = [type |-> type, id |-> id]}
    IN IF at = {} THEN 0 ELSE CHOOSE i \in at : \A k \in at : k <= i

\* A position write to an item of the catalog leaves a trace in the tables
\* (the timestamp of the write), whatever the position written.
PositionWritePersistsTouch ==
    /\ ret.op = "update_playback_position"
           /\ (\E m \in ret.before.movies : m.id = ret.args.id)
        => Tables # ret.before
    /\ ret.op = "update_episode_position"
           /\ (\E e \in ret.before.episodes : e.id = ret.args.id)
        => Tables # ret.before

\* Two items of the view whose positions were written at different times:
\* the one written later comes first.
ViewMostRecentFirst ==
    ret.op = "get_continue_watching" =>
        \A i, k \in DOMAIN ret.result :
           LET ti == LastTouch(ret.result[i].type, ret.result[i].item.id)
               tk == LastTouch(ret.result[k].type, ret.result[k].item.id)
           IN i < k /\ ti > 0 /\ tk > 0 => ti > tk

\* C34: every position write (update_playback_position,
\* update_episode_position) updates a persisted last-touched timestamp of
\* the item, and the continue-watching view is ordered most recently
\* updated first.
C34_PositionWritesOrderTheView ==
    PositionWritePersistsTouch /\ ViewMostRecentFirst

\* The paths in the rows the imports of this run have written.
ImportedPaths ==
    {m.movie_path : m \in movies \ SmallCatalog.movies}
    \cup {m.thumb_path : m \in movies \ SmallCatalog.movies}
    \cup {sub.sub_path : sub \in subtitles}
    \cup {sh.thumb_path : sh \in shows \ SmallCatalog.shows}
    \cup {e.movie_path : e \in episodes}

\* The path is below no root: it does not begin with the library root.
IsRelative(path) ==
    \/ Len(path) < Len(get_library_root)
    \/ SubSeq(path, 1, Len(get_library_root)) # get_library_root

\* The separators in the text of a path whose components os.path joined.
SeparatorsIn(path) == IF Len(path) > 1 THEN {sep} ELSE {}

PathsAreRelative == \A path \in ImportedPaths : IsRelative(path)

\* C35: every path an import writes to the catalog (movie file, thumbnail,
\* subtitle, show poster, episode file) is relative to the library root and
\* has forward slashes only between its components, on every host.
C35_StoredPathsRelativeForwardSlash ==
    \A path \in ImportedPaths :
       IsRelative(path) /\ SeparatorsIn(path) \subseteq {"/"}

\* C36: once the user has cancelled a single-movie import, no Movie row is
\* committed for it, whatever the preset and however the cancel falls
\* between the end of the job and the delivery of its terminal signal.
C36_NoMovieRowAfterCancel ==
    [][\A j \in Jobs :
          MovieJob(j) /\ cancelled[j] =>
              ~\E c \in commitBy' \ commitBy : c.table = "movies" /\ c.job = j]_vars

\* C37: when the dialog handles the terminal signal of a job of a batch,
\* _current_ep_index is an index of _episode_queue and the entry at that
\* index, whose Episode row is committed or skipped, is the entry the job
\* was started for; under every sequence of Add, Cancel and completions.
C37_HandledEntryIsFinishedJobs ==
    [][(/\ mainQueue # <<>>
        /\ mainQueue' = Tail(mainQueue)
        /\ slot[Delivery.job] = "_on_episode_complete")
       => /\ current_ep_index < Len(episode_queue)
          /\ LET ep_data == episode_queue[current_ep_index + 1]
                 item == jobItem[Delivery.job]
             IN /\ ep_data.season_id = item.season_id
                /\ ep_data.episode_number = item.episode_number]_vars

\* The batch of job j has been reported complete.
BatchCompletionReported(j) ==
    \E i \in DOMAIN completions :
       /\ completions[i].kind = "show"
       /\ completions[i].season_id = jobItem[j].season_id

\* The terminal signal of job j is still to come or to be handled.
TerminalOutstanding(j) ==
    ~Done(j) \/ \E i \in DOMAIN mainQueue : mainQueue[i].job = j

\* C38: over a batch the aggregate values set on the progress bar are
\* within 0..100, those of an item are not above those of a later item, and
\* 100 is on the bar only for a batch whose completion is reported (at the
\* latest when the terminal signal of the job that showed it is handled).
\* The values of a job are all handled before its terminal signal, and the
\* next job starts after that, so the bar sees the items in their order.
C38_AggregateProgressMonotoneTo100 ==
    /\ \A j \in Jobs :
          EpisodeJob(j) =>
              \A k \in DOMAIN shown[j] : shown[j][k] >= 0 /\ shown[j][k] <= 100
    /\ \A j, q \in Jobs :
          (/\ EpisodeJob(j) /\ EpisodeJob(q)
           /\ jobItem[j].season_id = jobItem[q].season_id
           /\ jobItem[j].episode_number < jobItem[q].episode_number)
          => \A k \in DOMAIN shown[j], l \in DOMAIN shown[q] :
                shown[j][k] <= shown[q][l]
    /\ \A j \in Jobs :
          (EpisodeJob(j) /\ \E k \in DOMAIN shown[j] : shown[j][k] = 100)
          => BatchCompletionReported(j) \/ TerminalOutstanding(j)

\* C39: every Subtitle row references a Movie of the catalog, every Season
\* row a Show and every Episode row a Season; add_season or add_episode
\* with a parent id that has no row (never created, or deleted) raises and
\* leaves the catalog as it was.
C39_ReferentialIntegrity ==
    /\ \A sub \in subtitles : \E m \in movies : m.id = sub.movie_id
    /\ \A se \in seasons : \E sh \in shows : sh.id = se.show_id
    /\ \A e \in episodes : \E se \in seasons : se.id = e.season_id
    /\ (ret.op = "add_season"
           /\ ~\E sh \in ret.before.shows : sh.id = ret.args.show_id)
        => ret.raised = "IntegrityError" /\ Tables = ret.before
    /\ (ret.op = "add_episode"
           /\ ~\E se \in ret.before.seasons : se.id = ret.args.season_id)
        => ret.raised = "IntegrityError" /\ Tables = ret.before

\* add_season for a show that was deleted has raised, and add_episode for
\* a season that went with its show would too: the catalog still has rows
\* at every level.
C39_Witness ==
    /\ ret.op = "add_season"
    /\ ret.raised = "IntegrityError"
    /\ ret.args.show_id < nextId.shows
    /\ seasons # {} /\ episodes # {} /\ subtitles # {}

====
